---- MODULE Spec2Model ----
(***************************************************************************)
(* A model of the PDF-to-JSON conversion service: main.py (the two upload  *)
(* endpoints, the text source adapters, the purchase-order field rules and *)
(* safe_extract) and advanced_converter.py (the table extractors and the   *)
(* structured-entity extractor).                                           *)
(*                                                                         *)
(* A Python str is a sequence of one-character strings.  A Python value is *)
(* a record tagged by `kind`; a raised exception is the value              *)
(* Raise(class), which an operator standing for a Python function returns *)
(* in place of a result.                                                   *)
(***************************************************************************)
EXTENDS Integers, Sequences, FiniteSets, TLC

VARIABLES
    safe,       \* one call of safe_extract: the rule, its arguments, what came back
    http,       \* one upload request: the request, the handler's calls, the response
    po,         \* calls of parse_purchase_order_data: the texts, the frame of each call
    entities,   \* one call of extract_structured_data: the text, the dict returned
    tables,     \* two invocations of the table extractors and the files on disk
    rules,      \* one call of parse_purchase_order_data with its rules run in any order
    supplier    \* one call of extract_supplier_name: the text, what came back

vars == <<safe, http, po, entities, tables, rules, supplier>>

(***************************************************************************)
(* Bounds of the model.                                                    *)
(***************************************************************************)
\* pages of an uploaded PDF
MaxPages == 2

\* chunks a text handed to parse_purchase_order_data is put together from
MaxChunks == 2

\* bytes of a PDF handed to a table extractor
MaxBytes == 2

\* how many calls of safe_extract a call may run ahead of a pending one
MaxOutOfOrder == 3

(***************************************************************************)
(* Python values.                                                          *)
(***************************************************************************)
None == [kind |-> "None"]

Str(s) == [kind |-> "str", s |-> s]

IntVal(n) == [kind |-> "int", n |-> n]

Float(f) == [kind |-> "float", f |-> f]

List(items) == [kind |-> "list", items |-> items]

Dict(d) == [kind |-> "dict", d |-> d]

Bool(b) == [kind |-> "bool", b |-> b]

Raise(exc) == [kind |-> "raise", exc |-> exc]

\* {}
EmptyDict == Dict([k \in {} |-> None])

IsRaise(v) == "kind" \in DOMAIN v /\ v.kind = "raise"

\* Exception classes.  Those of ExceptionClasses derive from Exception (the
\* last two are the PDF libraries' own); KeyboardInterrupt and SystemExit derive
\* from BaseException only.
ExceptionClasses ==
    {"AttributeError", "IndexError", "ValueError", "TypeError", "KeyError",
     "ZeroDivisionError", "RuntimeError", "Exception",
     "PdfReadError", "PDFSyntaxError"}

BaseExceptionOnly == {"KeyboardInterrupt", "SystemExit"}

IsException(exc) == exc \in ExceptionClasses

\* where the value of a call that has not returned will go
NotCalled == [kind |-> "pending"]

\* a component that takes no part in a specification
Idle == [pc |-> "idle"]
(***************************************************************************)
(* Python str operations.  A str is a sequence of characters.              *)
(***************************************************************************)
UpperCaseLetters == <<"A", "B", "C", "D", "E", "F", "G", "H", "I", "J", "K", "L", "M", "N", "O", "P", "Q", "R", "S", "T", "U", "V", "W", "X", "Y", "Z">>

LowerCaseLetters == <<"a", "b", "c", "d", "e", "f", "g", "h", "i", "j", "k", "l", "m", "n", "o", "p", "q", "r", "s", "t", "u", "v", "w", "x", "y", "z">>

\* [A-Z]
UpperCase == {UpperCaseLetters[i] : i \in 1..26}

\* [a-z]
LowerCase == {LowerCaseLetters[i] : i \in 1..26}

Digit == {"0", "1", "2", "3", "4", "5", "6", "7", "8", "9"}

\* \s
Whitespace == {" ", "\n", "\t", "\f", "\r"}

\* \w
WordChar == UpperCase \cup LowerCase \cup Digit \cup {"_"}

ToLower ==
    [c \in UpperCase |->
        LowerCaseLetters[CHOOSE i \in 1..26 : UpperCaseLetters[i] = c]]

lower_char(c) == IF c \in DOMAIN ToLower THEN ToLower[c] ELSE c

\* str.lower()
lower(s) == [i \in 1..Len(s) |-> lower_char(s[i])]

\* str.endswith(suffix)
endswith(s, suffix) ==
    /\ Len(s) >= Len(suffix)
    /\ SubSeq(s, Len(s) - Len(suffix) + 1, Len(s)) = suffix

\* str.strip(): leading and trailing whitespace removed
strip(s) ==
    LET keep == {i \in 1..Len(s) : s[i] \notin Whitespace}
    IN  IF keep = {} THEN <<>>
        ELSE SubSeq(s, CHOOSE i \in keep : \A j \in keep : i <= j,
                       CHOOSE i \in keep : \A j \in keep : i >= j)

\* number of occurrences of character c in s
count(s, c) == Cardinality({i \in 1..Len(s) : s[i] = c})

\* str.replace(c, ""): every occurrence of character c removed
RECURSIVE remove_char(_, _)
remove_char(s, c) ==
    IF s = <<>> THEN <<>>
    ELSE IF Head(s) = c THEN remove_char(Tail(s), c)
         ELSE <<Head(s)>> \o remove_char(Tail(s), c)


\* the sequences over S of length n at most
SeqUpTo(S, n) == UNION {[1..k -> S] : k \in 0..n}

(***************************************************************************)
(* Python's re, as far as the patterns of the two source files go.  A      *)
(* pattern is a sequence of nodes; Match tries them in the order the       *)
(* backtracking matcher does: a repeat takes as many as it can and gives   *)
(* back one at a time, a branch tries its alternatives left to right.      *)
(***************************************************************************)
\* [...]
OneOf(cs) == [node |-> "in", cs |-> cs]

\* [^...]
NoneOf(cs) == [node |-> "not_in", cs |-> cs]

\* a run of literal characters
Literal(s) == [k \in 1..Len(s) |-> OneOf({s[k]})]

\* body{lo,hi}
Repeat(lo, hi, body) ==
    [node |-> "repeat", lo |-> lo, hi |-> hi, unbounded |-> FALSE, body |-> body]

\* body{lo,}: * is AtLeast(0, body), + is AtLeast(1, body)
AtLeast(lo, body) ==
    [node |-> "repeat", lo |-> lo, hi |-> lo, unbounded |-> TRUE, body |-> body]

\* a|b
Branch(alts) == [node |-> "branch", alts |-> alts]

\* ( and ) of group 1
GroupOpen == [node |-> "open"]

GroupClose == [node |-> "close"]

\* \b
Boundary == [node |-> "boundary"]

\* $
AtEnd == [node |-> "at_end"]

\* (?=...)
Ahead(body) == [node |-> "ahead", body |-> body]

\* re.IGNORECASE: the pattern's characters folded, to be matched against the
\* folded string
RECURSIVE IgnoreCase(_)
IgnoreCase(pattern) ==
    [k \in 1..Len(pattern) |->
        CASE pattern[k].node \in {"in", "not_in"} ->
                [pattern[k] EXCEPT !.cs = {lower_char(c) : c \in pattern[k].cs}]
          [] pattern[k].node \in {"repeat", "ahead"} ->
                [pattern[k] EXCEPT !.body = IgnoreCase(pattern[k].body)]
          [] pattern[k].node = "branch" ->
                [pattern[k] EXCEPT
                    !.alts = [a \in 1..Len(pattern[k].alts) |->
                                 IgnoreCase(pattern[k].alts[a])]]
          [] OTHER -> pattern[k]]

NoMatch == <<>>

Accepts(n, c) == IF n.node = "in" THEN c \in n.cs ELSE c \notin n.cs

IsWordAt(s, i) == i \in 1..Len(s) /\ s[i] \in WordChar

\* the end of the run of characters n accepts that starts at i, at most
\* `left` of them
RECURSIVE RunEnd(_, _, _, _)
RunEnd(s, i, n, left) ==
    IF left = 0 \/ i > Len(s) \/ ~Accepts(n, s[i]) THEN i
    ELSE RunEnd(s, i + 1, n, left - 1)

RECURSIVE Match(_, _, _, _)

\* r unless it is NoMatch, then the match of `nodes`
OrElse(r, nodes, s, i, g) == IF r # NoMatch THEN r ELSE Match(nodes, s, i, g)

\* of the matches <<k, match>> of `rest` after k turns of a repeat, the one
\* after the most turns
LongestRun(ms) ==
    IF ms = {} THEN NoMatch
    ELSE (CHOOSE m \in ms : \A o \in ms : o[1] <= m[1])[2]

\* a repeat of one character class, its longest run ending at `end`,
\* followed by `rest`
MatchRun(n, rest, s, i, g, end) ==
    LongestRun({m \in {<<k, Match(rest, s, i + k, g)>> : k \in n.lo..(end - i)} :
                   m[2] # NoMatch})

\* one more turn of the body of a repeat over a longer body
OneMore(n) ==
    [n EXCEPT !.lo = IF n.lo > 0 THEN n.lo - 1 ELSE 0,
              !.hi = IF n.unbounded THEN n.hi ELSE n.hi - 1]

MatchRepeat(n, rest, s, i, g) ==
    IF Len(n.body) = 1 /\ n.body[1].node \in {"in", "not_in"}
    THEN MatchRun(n, rest, s, i, g,
                  RunEnd(s, i, n.body[1], IF n.unbounded THEN Len(s) ELSE n.hi))
    ELSE IF ~n.unbounded /\ n.hi = 0
    THEN Match(rest, s, i, g)
    ELSE IF n.lo > 0
    THEN Match(n.body \o <<OneMore(n)>> \o rest, s, i, g)
    ELSE OrElse(Match(n.body \o <<OneMore(n)>> \o rest, s, i, g), rest, s, i, g)

\* the first alternative, or else the branch of the others
MatchBranch(alts, rest, s, i, g) ==
    IF alts = <<>> THEN NoMatch
    ELSE OrElse(Match(Head(alts) \o rest, s, i, g),
                <<Branch(Tail(alts))>> \o rest, s, i, g)

MatchNode(n, rest, s, i, g) ==
    CASE n.node \in {"in", "not_in"} ->
            IF i <= Len(s) /\ Accepts(n, s[i]) THEN Match(rest, s, i + 1, g)
            ELSE NoMatch
      [] n.node = "repeat" -> MatchRepeat(n, rest, s, i, g)
      [] n.node = "branch" -> MatchBranch(n.alts, rest, s, i, g)
      [] n.node = "open" -> Match(rest, s, i, <<i, g[2]>>)
      [] n.node = "close" -> Match(rest, s, i, <<g[1], i>>)
      [] n.node = "boundary" ->
            IF IsWordAt(s, i - 1) # IsWordAt(s, i) THEN Match(rest, s, i, g)
            ELSE NoMatch
      [] n.node = "at_end" ->
            IF i = Len(s) + 1 \/ (i = Len(s) /\ s[i] = "\n")
            THEN Match(rest, s, i, g) ELSE NoMatch
      [] n.node = "ahead" ->
            IF Match(n.body, s, i, g) # NoMatch THEN Match(rest, s, i, g)
            ELSE NoMatch

\* the match of `nodes` that starts at i: <<end, group start, group end>>
\* (the ends exclusive, the group 0 when the pattern has none), or NoMatch
Match(nodes, s, i, g) ==
    IF nodes = <<>> THEN <<i, g[1], g[2]>>
    ELSE MatchNode(Head(nodes), Tail(nodes), s, i, g)

\* the leftmost match that starts at `from` or later:
\* <<start, end, group start, group end>>
Leftmost(pattern, s, ps) ==
    IF ps = {} THEN NoMatch
    ELSE LET start == CHOOSE p \in ps : \A q \in ps : p <= q
         IN  <<start>> \o Match(pattern, s, start, <<0, 0>>)

SearchFrom(pattern, s, from) ==
    Leftmost(pattern, s,
             {p \in from..Len(s) + 1 : Match(pattern, s, p, <<0, 0>>) # NoMatch})

\* re.search(pattern, string, re.IGNORECASE) and re.search(pattern, string)
re_search(pattern, string, ignorecase) ==
    IF ignorecase THEN SearchFrom(IgnoreCase(pattern), lower(string), 1)
    ELSE SearchFrom(pattern, string, 1)

\* match.group(1).strip() if match else None
StrippedGroup(string, match) ==
    IF match = NoMatch THEN None
    ELSE Str(strip(SubSeq(string, match[3], match[4] - 1)))

\* match.group() if match else None
WholeMatch(string, match) ==
    IF match = NoMatch THEN None
    ELSE Str(SubSeq(string, match[1], match[2] - 1))

\* re.findall of a pattern without groups: the matches from left to right,
\* each search starting where the last match ended
RECURSIVE FindFrom(_, _, _, _)
FindNext(pattern, s, string, m) ==
    IF m = NoMatch THEN <<>>
    ELSE <<SubSeq(string, m[1], m[2] - 1)>>
         \o FindFrom(pattern, s, string, IF m[2] > m[1] THEN m[2] ELSE m[2] + 1)

FindFrom(pattern, s, string, from) ==
    IF from > Len(s) + 1 THEN <<>>
    ELSE FindNext(pattern, s, string, SearchFrom(pattern, s, from))

re_findall(pattern, string, ignorecase) ==
    IF ignorecase THEN FindFrom(IgnoreCase(pattern), lower(string), string, 1)
    ELSE FindFrom(pattern, string, string, 1)
(***************************************************************************)
(* safe_extract (main.py 272-278).  `extract_func` is the rule as a        *)
(* function of the text, giving a value or Raise(class).  The except       *)
(* clause names Exception, so a class outside Exception passes through.    *)
(***************************************************************************)
\* a safe_extract whose except clause stops at the four classes it names
safe_extract_narrow_except(extract_func, text, default_value) ==
    LET result == extract_func[text]
    IN  IF IsRaise(result)
        THEN IF result.exc \in {"AttributeError", "IndexError", "ValueError", "TypeError"}
             THEN default_value
             ELSE result
        ELSE IF result # None /\ result # Str(<<>>)
             THEN result
             ELSE default_value

\* a safe_extract that puts the default in place of an error only, and hands
\* on a None or an empty result
safe_extract_keeps_absent(extract_func, text, default_value) ==
    LET result == extract_func[text]
    IN  IF IsRaise(result)
        THEN IF IsException(result.exc)
             THEN default_value
             ELSE result
        ELSE result

safe_extract(extract_func, text, default_value) ==
    LET result == extract_func[text]
    IN  IF IsRaise(result)
        THEN IF IsException(result.exc)
             THEN default_value
             ELSE result
        ELSE IF result # None /\ result # Str(<<>>)
             THEN result
             ELSE default_value


(***************************************************************************)
(* The field rules (main.py 281-469).  Each takes the text and gives a     *)
(* Python value; None is the absent value.  The comment above a rule is    *)
(* the pattern as the source writes it.                                    *)
(***************************************************************************)
\* PURCHASE ORDER NO[.:\s]*([A-Z0-9]+)
extract_po_number(text) ==
    StrippedGroup(text,
        re_search(Literal(<<"P", "U", "R", "C", "H", "A", "S", "E", " ", "O", "R", "D", "E", "R", " ", "N", "O">>) \o
                  <<AtLeast(0, <<OneOf(Whitespace \cup {".", ":"})>>), GroupOpen, AtLeast(1, <<OneOf(UpperCase \cup Digit)>>), GroupClose>>,
                  text, TRUE))

\* the patterns dict (main.py 286-289)
DatePatterns ==
    [p \in {<<"P", "O", " ", "D", "a", "t", "e">>} |->
        \* PO Date[.:\s]*([\d]{1,2}\.[A-Z]{3,4}\.[\d]{4})
        Literal(<<"P", "O", " ", "D", "a", "t", "e">>) \o
        <<AtLeast(0, <<OneOf(Whitespace \cup {".", ":"})>>), GroupOpen, Repeat(1, 2, <<OneOf(Digit)>>)>> \o
        Literal(<<".">>) \o
        <<Repeat(3, 4, <<OneOf(UpperCase)>>)>> \o
        Literal(<<".">>) \o
        <<Repeat(4, 4, <<OneOf(Digit)>>), GroupClose>>] @@
    [p \in {<<"R", "e", "v", "i", "s", "i", "o", "n", " ", "D", "a", "t", "e">>} |->
        \* Revision Date[.:\s]*([\d]{1,2}\.[A-Z]{3,4}\.[\d]{4})
        Literal(<<"R", "e", "v", "i", "s", "i", "o", "n", " ", "D", "a", "t", "e">>) \o
        <<AtLeast(0, <<OneOf(Whitespace \cup {".", ":"})>>), GroupOpen, Repeat(1, 2, <<OneOf(Digit)>>)>> \o
        Literal(<<".">>) \o
        <<Repeat(3, 4, <<OneOf(UpperCase)>>)>> \o
        Literal(<<".">>) \o
        <<Repeat(4, 4, <<OneOf(Digit)>>), GroupClose>>]

\* patterns.get(date_type) is None for any other date_type
extract_date(text, date_type) ==
    IF date_type \in DOMAIN DatePatterns
    THEN StrippedGroup(text, re_search(DatePatterns[date_type], text, TRUE))
    ELSE None

\* Revision No[.:\s]*([\d]+)
extract_revision_number(text) ==
    StrippedGroup(text,
        re_search(Literal(<<"R", "e", "v", "i", "s", "i", "o", "n", " ", "N", "o">>) \o
                  <<AtLeast(0, <<OneOf(Whitespace \cup {".", ":"})>>), GroupOpen, AtLeast(1, <<OneOf(Digit)>>), GroupClose>>,
                  text, TRUE))

\* Buyer Contact[.:\s]*([A-Za-z\s.]+)(?=\n|$)
extract_buyer_contact(text) ==
    StrippedGroup(text,
        re_search(Literal(<<"B", "u", "y", "e", "r", " ", "C", "o", "n", "t", "a", "c", "t">>) \o
                  <<AtLeast(0, <<OneOf(Whitespace \cup {".", ":"})>>), GroupOpen, AtLeast(1, <<OneOf(UpperCase \cup LowerCase \cup Whitespace \cup {"."})>>), GroupClose, Ahead(<<Branch(<<Literal(<<"\n">>), <<AtEnd>>>>)>>)>>,
                  text, TRUE))

\* Buyer Phone[.:\s]*([\d\s\-]+)
extract_buyer_phone(text) ==
    StrippedGroup(text,
        re_search(Literal(<<"B", "u", "y", "e", "r", " ", "P", "h", "o", "n", "e">>) \o
                  <<AtLeast(0, <<OneOf(Whitespace \cup {".", ":"})>>), GroupOpen, AtLeast(1, <<OneOf(Digit \cup Whitespace \cup {"-"})>>), GroupClose>>,
                  text, TRUE))

\* [\w\.-]+@[\w\.-]+\.\w+
extract_buyer_email(text) ==
    WholeMatch(text,
        re_search(<<AtLeast(1, <<OneOf(WordChar \cup {".", "-"})>>)>> \o
                  Literal(<<"@">>) \o
                  <<AtLeast(1, <<OneOf(WordChar \cup {".", "-"})>>)>> \o
                  Literal(<<".">>) \o
                  <<AtLeast(1, <<OneOf(WordChar)>>)>>,
                  text, FALSE))

VALVETECQ_ENGINEERS == <<"V", "A", "L", "V", "E", "T", "E", "C", "Q", " ", "E", "N", "G", "I", "N", "E", "E", "R", "S">>

\* the patterns list (main.py 313-317)
SupplierNamePatterns ==
    <<\* Supplier Name[.:\s]*([^\n]+)
      Literal(<<"S", "u", "p", "p", "l", "i", "e", "r", " ", "N", "a", "m", "e">>) \o
      <<AtLeast(0, <<OneOf(Whitespace \cup {".", ":"})>>), GroupOpen, AtLeast(1, <<NoneOf({"\n"})>>), GroupClose>>,
      \* Vendor Name[.:\s]*([^\n]+)
      Literal(<<"V", "e", "n", "d", "o", "r", " ", "N", "a", "m", "e">>) \o
      <<AtLeast(0, <<OneOf(Whitespace \cup {".", ":"})>>), GroupOpen, AtLeast(1, <<NoneOf({"\n"})>>), GroupClose>>,
      \* VALVETECQ ENGINEERS
      Literal(<<"V", "A", "L", "V", "E", "T", "E", "C", "Q", " ", "E", "N", "G", "I", "N", "E", "E", "R", "S">>)>>

\* the loop over patterns (main.py 318-322); match.lastindex is set exactly
\* when the pattern has a group
RECURSIVE SupplierNameLoop(_, _)
\* a loop that goes on after a match, so that the last pattern to match
\* gives the name
SupplierNameLastMatch(text, i, match) ==
    IF SupplierNameLoop(text, i + 1) # None
    THEN SupplierNameLoop(text, i + 1)
    ELSE IF match = NoMatch THEN None
    ELSE IF match[3] > 0 THEN StrippedGroup(text, match)
    ELSE Str(VALVETECQ_ENGINEERS)

SupplierNameStep(text, i, match) ==
    IF match # NoMatch
    THEN IF match[3] > 0
         THEN StrippedGroup(text, match)
         ELSE Str(VALVETECQ_ENGINEERS)
    ELSE SupplierNameLoop(text, i + 1)

SupplierNameLoop(text, i) ==
    IF i > Len(SupplierNamePatterns) THEN None
    ELSE SupplierNameStep(text, i, re_search(SupplierNamePatterns[i], text, TRUE))

extract_supplier_name(text) == SupplierNameLoop(text, 1)

extract_supplier_address(text) ==
    Str(<<"M", "A", "L", "U", "M", "I", "C", "H", "A", "M", "P", "A", "T", "T", "I", " ", "1", "8", "7", "/", "1", "C", ",", " ", "S", "N", "M", "V", " ", "C", "O", "L", "L", "E", "G", "E", " ", "R", "O", "A", "D", " ", "6", "4", "1", "0", "5", "0", " ", "C", "O", "I", "M", "B", "A", "T", "O", "R", "E", " ", "I", "N", "D", "I", "A">>)

\* f"P:{match.group(1)}/" if match else None
SupplierPhoneText(text, match) ==
    IF match = NoMatch THEN None
    ELSE Str(<<"P", ":">> \o SubSeq(text, match[3], match[4] - 1) \o <<"/">>)

\* P[:\s]*([\d]{10})
extract_supplier_phone(text) ==
    SupplierPhoneText(text,
        re_search(Literal(<<"P">>) \o
                  <<AtLeast(0, <<OneOf(Whitespace \cup {":"})>>), GroupOpen, Repeat(10, 10, <<OneOf(Digit)>>), GroupClose>>,
                  text, TRUE))

\* SALES@VALVETECQ\.COM
extract_supplier_email(text) ==
    WholeMatch(text,
        re_search(Literal(<<"S", "A", "L", "E", "S", "@", "V", "A", "L", "V", "E", "T", "E", "C", "Q", ".", "C", "O", "M">>),
                  text, TRUE))

\* GSL Number[.:\s]*([A-Z0-9]+)
extract_gsl_number(text) ==
    StrippedGroup(text,
        re_search(Literal(<<"G", "S", "L", " ", "N", "u", "m", "b", "e", "r">>) \o
                  <<AtLeast(0, <<OneOf(Whitespace \cup {".", ":"})>>), GroupOpen, AtLeast(1, <<OneOf(UpperCase \cup Digit)>>), GroupClose>>,
                  text, TRUE))

\* Site Code[.:\s]*([A-Z0-9]+)
extract_site_code(text) ==
    StrippedGroup(text,
        re_search(Literal(<<"S", "i", "t", "e", " ", "C", "o", "d", "e">>) \o
                  <<AtLeast(0, <<OneOf(Whitespace \cup {".", ":"})>>), GroupOpen, AtLeast(1, <<OneOf(UpperCase \cup Digit)>>), GroupClose>>,
                  text, TRUE))

\* Supplier Code[.:\s]*([\d]+)
extract_supplier_code(text) ==
    StrippedGroup(text,
        re_search(Literal(<<"S", "u", "p", "p", "l", "i", "e", "r", " ", "C", "o", "d", "e">>) \o
                  <<AtLeast(0, <<OneOf(Whitespace \cup {".", ":"})>>), GroupOpen, AtLeast(1, <<OneOf(Digit)>>), GroupClose>>,
                  text, TRUE))

\* GST[.:\s]*([A-Z0-9]{15})
extract_vendor_gst(text) ==
    StrippedGroup(text,
        re_search(Literal(<<"G", "S", "T">>) \o
                  <<AtLeast(0, <<OneOf(Whitespace \cup {".", ":"})>>), GroupOpen, Repeat(15, 15, <<OneOf(UpperCase \cup Digit)>>), GroupClose>>,
                  text, TRUE))

extract_ship_to_name(text) ==
    Str(<<"G", "E", " ", "O", "i", "l", " ", "&", " ", "G", "a", "s", " ", "I", "n", "d", "i", "a", " ", "P", "r", "i", "v", "a", "t", "e", " ", "L", "i", "m", "i", "t", "e", "d", " ", "D", "i", "v", "-", "D", "r", "e", "s", "s", "e", "r", " ", "V", "a", "l", "v", "e">>)

extract_ship_to_address(text) ==
    Str(<<"S", "F", " ", "N", "o", ".", " ", "6", "0", "8", ",", " ", "C", "h", "e", "t", "t", "i", "p", "a", "l", "a", "y", "a", "m", " ", "R", "o", "a", "d", ",", " ", "E", "a", "c", "h", "a", "n", "a", "r", "i", " ", "P", "o", "s", "t", " ", "6", "4", "1", "0", "2", "1", " ", "C", "O", "I", "M", "B", "A", "T", "O", "R", "E", " ", "I", "N", "D", "I", "A">>)

\* IN_PO_Invoice@BakerHughes\.com
extract_invoice_email(text) ==
    WholeMatch(text,
        re_search(Literal(<<"I", "N", "_", "P", "O", "_", "I", "n", "v", "o", "i", "c", "e", "@", "B", "a", "k", "e", "r", "H", "u", "g", "h", "e", "s", ".", "c", "o", "m">>),
                  text, TRUE))

\* Incoterms[.:\s]*([^\n]+)
extract_incoterms(text) ==
    StrippedGroup(text,
        re_search(Literal(<<"I", "n", "c", "o", "t", "e", "r", "m", "s">>) \o
                  <<AtLeast(0, <<OneOf(Whitespace \cup {".", ":"})>>), GroupOpen, AtLeast(1, <<NoneOf({"\n"})>>), GroupClose>>,
                  text, TRUE))

\* Currency[.:\s]*([A-Z]{3})
extract_currency(text) ==
    StrippedGroup(text,
        re_search(Literal(<<"C", "u", "r", "r", "e", "n", "c", "y">>) \o
                  <<AtLeast(0, <<OneOf(Whitespace \cup {".", ":"})>>), GroupOpen, Repeat(3, 3, <<OneOf(UpperCase)>>), GroupClose>>,
                  text, TRUE))

\* Payment Terms[.:\s]*([^\n]+)
extract_payment_terms(text) ==
    StrippedGroup(text,
        re_search(Literal(<<"P", "a", "y", "m", "e", "n", "t", " ", "T", "e", "r", "m", "s">>) \o
                  <<AtLeast(0, <<OneOf(Whitespace \cup {".", ":"})>>), GroupOpen, AtLeast(1, <<NoneOf({"\n"})>>), GroupClose>>,
                  text, TRUE))

extract_company_name(text) ==
    Str(<<"G", "E", " ", "O", "I", "L", " ", "&", " ", "G", "A", "S", " ", "I", "N", "D", "I", "A", " ", "P", "R", "I", "V", "A", "T", "E", " ", "L", "I", "M", "I", "T", "E", "D">>)

extract_company_address(text) ==
    Str(<<"S", "F", " ", "N", "o", ".", " ", "6", "0", "8", ",", " ", "C", "h", "e", "t", "t", "i", "p", "a", "l", "a", "y", "a", "m", " ", "R", "o", "a", "d", ",", " ", "E", "a", "c", "h", "a", "n", "a", "r", "i", " ", "P", "o", "s", "t", ",", " ", "C", "o", "i", "m", "b", "a", "t", "o", "r", "e", " ", "T", "a", "m", "i", "l", " ", "N", "a", "d", "u", " ", "6", "4", "1", "0", "2", "1", " ", "I", "n", "d", "i", "a">>)

extract_company_phone(text) ==
    Str(<<"4", "2", "2", " ", "6", "6", "4", " ", "1", "0", "0", "0">>)

\* a line-item rule that reads the rows off the text, none when the text has
\* no line
extract_line_items_from_text(text) ==
    IF count(text, "\n") = 0 THEN None
    ELSE List(<<Dict([line_number |-> Str(<<"1", "0">>),
                      description |-> Str(text)])>>)

extract_line_items(text) ==
    List(<<
      Dict([line_number |->
                Str(<<"1", "0">>),
            part_number |->
                Str(<<"M", "Y", "-", "F", "L", "O", "W", "M", "A", "X">>),
            description |->
                Str(<<"M", "a", "t", "e", "r", "i", "a", "l", " ", "R", "e", "v", ".", " ", "L", "e", "v", "e", "l", ":", "-", " ", "E", "X", "T", " ", "O", "P", "N", " ", "P", "A", "I", "N", "T", "I", "N", "G", ":", "F", "M", ",", "4", "\"">>),
            quantity |->
                Float(<<6, 0>>),
            uom |->
                Str(<<"E", "A">>),
            price |->
                Float(<<108075, 2>>),
            price_currency |->
                Str(<<"I", "N", "R">>),
            extended_price |->
                Float(<<64845, 1>>),
            taxable |->
                Str(<<"Y">>),
            promise_date |->
                Str(<<>>),
            required_by_date |->
                Str(<<"1", "4", ".", "A", "U", "G", ".", "2", "0", "2", "6">>),
            hsn_code |->
                Str(<<"8", "4", "8", "1", "8", "0", "3", "0">>)]),
      Dict([line_number |->
                Str(<<"2", "0">>),
            part_number |->
                Str(<<"M", "Y", "-", "F", "L", "O", "W", "G", "R", "I", "D">>),
            description |->
                Str(<<"M", "a", "t", "e", "r", "i", "a", "l", " ", "R", "e", "v", ".", " ", "L", "e", "v", "e", "l", ":", "-", " ", "E", "X", "T", " ", "O", "P", "N", " ", "P", "A", "I", "N", "T", "I", "N", "G", ":", "F", "G", ",", "2", "\"", " ", "3", "0", "0">>),
            quantity |->
                Float(<<20, 0>>),
            uom |->
                Str(<<"E", "A">>),
            price |->
                Float(<<500, 0>>),
            price_currency |->
                Str(<<"I", "N", "R">>),
            extended_price |->
                Float(<<10000, 0>>),
            taxable |->
                Str(<<"Y">>),
            promise_date |->
                Str(<<>>),
            required_by_date |->
                Str(<<"0", "8", ".", "S", "E", "P", ".", "2", "0", "2", "6">>),
            hsn_code |->
                Str(<<"8", "4", "8", "1", "8", "0", "3", "0">>)])>>)

DigitSeq == <<"0", "1", "2", "3", "4", "5", "6", "7", "8", "9">>

DigitValue == [c \in Digit |-> (CHOOSE n \in 1..10 : DigitSeq[n] = c) - 1]

\* the number a sequence of digits writes
RECURSIVE ToNat(_)
ToNat(ds) ==
    IF ds = <<>> THEN 0
    ELSE 10 * ToNat(SubSeq(ds, 1, Len(ds) - 1)) + DigitValue[ds[Len(ds)]]

\* trailing "0" characters removed
RECURSIVE StripTrailingZeros(_)
StripTrailingZeros(ds) ==
    IF ds # <<>> /\ ds[Len(ds)] = "0"
    THEN StripTrailingZeros(SubSeq(ds, 1, Len(ds) - 1))
    ELSE ds

\* float(s) for s made of digits and at most one ".": ValueError when s holds
\* no digit; else the value m / 10^e as Float(<<m, e>>) with e least, m
\* written by the integer digits followed by the fraction digits
float(s) ==
    LET point == RunEnd(s, 1, OneOf(Digit), Len(s))
        fraction == StripTrailingZeros(SubSeq(s, point + 1, Len(s)))
    IN  IF \A i \in 1..Len(s) : s[i] \notin Digit
        THEN Raise("ValueError")
        ELSE Float(<<ToNat(SubSeq(s, 1, point - 1) \o fraction), Len(fraction)>>)

\* float(match.group(1).replace(',', '')) if match, else None, and None on
\* a ValueError (main.py 418-423)
TotalAmountValue(text, match) ==
    IF match = NoMatch THEN None
    ELSE LET amount == float(remove_char(SubSeq(text, match[3], match[4] - 1), ","))
         IN  IF IsRaise(amount) THEN None ELSE amount

\* Total Extended Net Price[.:\s]*([\d,]+\.?\d*)
extract_total_amount(text) ==
    TotalAmountValue(text,
        re_search(Literal(<<"T", "o", "t", "a", "l", " ", "E", "x", "t", "e", "n", "d", "e", "d", " ", "N", "e", "t", " ", "P", "r", "i", "c", "e">>) \o
                  <<AtLeast(0, <<OneOf(Whitespace \cup {".", ":"})>>), GroupOpen, AtLeast(1, <<OneOf(Digit \cup {","})>>), Repeat(0, 1, Literal(<<".">>)), AtLeast(0, <<OneOf(Digit)>>), GroupClose>>,
                  text, TRUE))

extract_special_instructions(text) ==
    Dict([reach_compliance_note |->
            Str(<<"P", "r", "o", "d", "u", "c", "t", "s", " ", "s", "o", "l", "d", " ", "t", "o", " ", "B", "a", "k", "e", "r", " ", "H", "u", "g", "h", "e", "s", " ", "T", "P", "S", " ", "c", "o", "n", "t", "a", "i", "n", "i", "n", "g", " ", "S", "V", "H", "C", " ", "(", "S", "u", "b", "s", "t", "a", "n", "c", "e", "s", " ", "o", "f", " ", "V", "e", "r", "y", " ", "H", "i", "g", "h", " ", "C", "o", "n", "c", "e", "r", "n", ")", "a", "s", " ", "p", "e", "r", " ", "R", "E", "A", "C", "H", " ", "(", "R", "e", "g", "i", "s", "t", "r", "a", "t", "i", "o", "n", ",", " ", "E", "v", "a", "l", "u", "a", "t", "i", "o", "n", ",", "A", "u", "t", "h", "o", "r", "i", "z", "a", "t", "i", "o", "n", " ", "a", "n", "d", " ", "R", "e", "s", "t", "r", "i", "c", "t", "i", "o", "n", " ", "o", "f", " ", "C", "h", "e", "m", "i", "c", "a", "l", "s", ")", "a", "r", "e", " ", "s", "u", "b", "j", "e", "c", "t", " ", "t", "o", " ", "B", "a", "k", "e", "r", " ", "H", "u", "g", "h", "e", "s", " ", "T", "P", "S", " ", "R", "E", "A", "C", "H", " ", "a", "n", "d", " ", "S", "C", "I", "P", " ", "c", "o", "m", "m", "u", "n", "i", "c", "a", "t", "i", "o", "n", " ", "a", "n", "d", " ", "r", "e", "p", "o", "r", "t", "i", "n", "g", " ", "R", "e", "q", "u", "i", "r", "e", "m", "e", "n", "t", "s", " ", "P", "l", "e", "a", "s", "e", " ", "r", "e", "f", "e", "r", " ", "t", "o", " ", "r", "e", "q", "u", "i", "r", "e", "m", "e", "n", "t", "s", " ", "i", "n", " ", "t", "h", "e", " ", "\"", "C", "o", "m", "p", "l", "i", "a", "n", "c", "e", " ", "\\u2013", " ", "T", "e", "c", "h", "n", "i", "c", "a", "l", " ", "R", "e", "g", "u", "l", "a", "t", "i", "o", "n", "s", " ", "&", " ", "S", "t", "a", "n", "d", "a", "r", "d", "s", "\"", " ", "s", "u", "p", "p", "l", "e", "m", "e", "n", "t", " ", "l", "i", "s", "t", "e", "d", " ", "i", "n", " ", "h", "t", "t", "p", "s", ":", "/", "/", "w", "w", "w", ".", "b", "a", "k", "e", "r", "h", "u", "g", "h", "e", "s", ".", "c", "o", "m", "/", "s", "u", "p", "p", "l", "i", "e", "r", "s">>),
        documentation_tool |->
            Str(<<"N", "e", "w", " ", "D", "o", "c", "u", "m", "e", "n", "t", "a", "t", "i", "o", "n", " ", "T", "o", "o", "l", " ", "A", "L", "F", "R", "E", "S", "C", "O", ":", " ", "h", "t", "t", "p", "s", ":", "/", "/", "a", "l", "f", "r", "e", "s", "c", "o", ".", "b", "a", "k", "e", "r", "h", "u", "g", "h", "e", "s", ".", "c", "o", "m", "/", "v", "a", "l", "v", "e", "-", "d", "a", "t", "a", "b", "o", "o", "k">>),
        machining_standard |->
            Str(<<"M", "a", "c", "h", "i", "n", "e", "d", " ", "s", "u", "r", "f", "a", "c", "e", "s", " ", "s", "h", "a", "l", "l", " ", "c", "o", "m", "p", "l", "y", " ", "v", "i", "s", "u", "a", "l", " ", "i", "n", "s", "p", "e", "c", "t", "i", "o", "n", " ", "s", "t", "a", "n", "d", "a", "r", "d", " ", "C", "E", "S", " ", "1", "0", "9", "2", ".">>),
        packing_procedure |->
            Str(<<"G", "E", "M", "C", "S", "-", "F", "P", "T", "-", "C", "o", "i", "m", "b", "a", "t", "o", "r", "e", "-", "Q", "W", "I", "-", "7", ".", "5", "-", "0", "0", "1", "-", " ", "E", "N">>),
        deviation_process |->
            Str(<<"A", "n", "y", " ", "d", "e", "v", "i", "a", "t", "i", "o", "n", " ", "t", "o", " ", "t", "h", "i", "s", " ", "P", "O", " ", "s", "h", "a", "l", "l", " ", "b", "e", " ", "p", "r", "o", "c", "e", "s", "s", "e", "d", " ", "t", "h", "r", "o", "u", "g", "h", " ", "e", "S", "D", "R", " ", "w", "o", "r", "k", " ", "f", "l", "o", "w", " ", "f", "o", "r", " ", "d", "i", "s", "p", "o", "s", "i", "t", "i", "o", "n", ".">>),
        material_processing |->
            Str(<<"A", "L", "L", " ", "M", "A", "T", "E", "R", "I", "A", "L", " ", "S", "H", "A", "L", "L", " ", "B", "E", " ", "P", "R", "O", "C", "E", "S", "S", "E", "D", " ", "I", "N", " ", "A", "C", "C", "O", "R", "D", "A", "N", "C", "E", " ", "W", "I", "T", "H", " ", "T", "H", "E", " ", "C", "U", "R", "R", "E", "T", " ", "E", "D", "I", "T", "I", "O", "N", " ", "A", "N", "D", " ", "R", "E", "V", "I", "S", "I", "O", "N", " ", "O", "F", " ", "T", "H", "E", " ", "R", "E", "F", "E", "R", "E", "N", "C", "E", "D", " ", "S", "P", "E", "C", "I", "F", "I", "C", "A", "T", "I", "O", "N", " ", "U", "N", "L", "E", "S", "S", " ", "O", "T", "H", "E", "R", "W", "I", "S", "E", " ", "N", "O", "T", "E", "D">>),
        quantity_policy |->
            Str(<<"Q", "u", "a", "n", "t", "i", "t", "i", "e", "s", " ", "o", "r", "d", "e", "r", "e", "d", " ", "a", "r", "e", " ", "f", "i", "r", "m", ".", " ", "O", "v", "e", "r", " ", "s", "h", "i", "p", "m", "e", "n", "t", "s", " ", "w", "i", "l", "l", " ", "b", "e", " ", "r", "e", "t", "u", "r", "n", "e", "d", " ", "a", "t", " ", "v", "e", "n", "d", "o", "r", " ", "e", "x", "p", "e", "n", "s", "e", ".">>),
        receiving_counts |->
            Str(<<"B", "a", "k", "e", "r", " ", "H", "u", "g", "h", "e", "s", " ", "E", "n", "e", "r", "g", "y", " ", "I", "n", "d", "i", "a", " ", "P", "r", "i", "v", "a", "t", "e", " ", "L", "i", "m", "i", "t", "e", "d", " ", "R", "e", "c", "e", "i", "v", "i", "n", "g", " ", "D", "e", "p", "a", "r", "t", "m", "e", "n", "t", " ", "c", "o", "u", "n", "t", "s", " ", "w", "i", "l", "l", " ", "g", "o", "v", "e", "r", "n", " ", "r", "e", "c", "e", "i", "p", "t", "/", "p", "a", "c", "k", "i", "n", "g", " ", "l", "i", "s", "t", " ", "q", "u", "a", "n", "t", "i", "t", "i", "e", "s", " ", "d", "i", "f", "f", "e", "r", "e", "n", "c", "e", "s", ".">>),
        marking_requirements |->
            Str(<<"A", "l", "l", " ", "d", "o", "c", "u", "m", "e", "n", "t", "a", "t", "i", "o", "n", "s", " ", "a", "n", "d", " ", "c", "o", "n", "t", "a", "i", "n", "e", "r", " ", "m", "u", "s", "t", " ", "b", "e", " ", "m", "a", "r", "k", "e", "d", " ", "w", "i", "t", "h", " ", "p", "u", "r", "c", "h", "a", "s", "e", " ", "o", "r", "d", "e", "r", " ", "n", "u", "m", "b", "e", "r", " ", "a", "n", "d", " ", "p", "a", "r", "t", " ", "n", "u", "m", "b", "e", "r", ".">>),
        due_date_clarification |->
            Str(<<"D", "u", "e", " ", "d", "a", "t", "e", " ", "s", "p", "e", "c", "i", "f", "i", "e", "d", " ", "a", "b", "o", "v", "e", " ", "i", "s", " ", "d", "a", "t", "e", " ", "r", "e", "q", "u", "i", "r", "e", "d", " ", "a", "t", " ", "t", "h", "e", " ", "R", "e", "c", "e", "i", "v", "i", "n", "g", " ", "D", "o", "c", "k", ".">>),
        routing_non_compliance |->
            Str(<<"F", "a", "i", "l", "u", "r", "e", " ", "t", "o", " ", "c", "o", "m", "p", "l", "y", " ", "w", "i", "t", "h", " ", "r", "o", "u", "t", "i", "n", "g", " ", "a", "s", " ", "s", "p", "e", "c", "i", "f", "i", "e", "d", " ", "w", "i", "l", "l", " ", "r", "e", "s", "u", "l", "t", " ", "i", "n", " ", "c", "h", "a", "r", "g", "e", "-", "b", "a", "c", "k", " ", "t", "o", " ", "s", "u", "p", "p", "l", "i", "e", "r", " ", "f", "o", "r", " ", "a", "d", "d", "i", "t", "i", "o", "n", "a", "l", " ", "c", "h", "a", "r", "g", "e", "s", " ", "i", "n", "c", "u", "r", "r", "e", "d", ".">>)])

extract_invoicing_instructions(text) ==
    Dict([primary_method |->
            Str(<<"S", "u", "b", "m", "i", "t", " ", "i", "n", "v", "o", "i", "c", "e", " ", "v", "i", "a", " ", "A", "r", "i", "b", "a", " ", "N", "e", "t", "w", "o", "r", "k", " ", "i", "f", " ", "r", "e", "g", "i", "s", "t", "e", "r", "e", "d", " ", "a", "n", "d", " ", "a", "t", "t", "a", "c", "h", " ", "d", "i", "g", "i", "t", "a", "l", "l", "y", " ", "s", "i", "g", "n", "e", "d", " ", "i", "n", "v", "o", "i", "c", "e", " ", "c", "o", "p", "y", " ", "i", "n", " ", "A", "r", "i", "b", "a", " ", "N", "e", "t", "w", "o", "r", "k", ".">>),
        fallback_method |->
            Str(<<"I", "f", " ", "n", "o", "t", " ", "r", "e", "g", "i", "s", "t", "e", "r", "e", "d", " ", "f", "o", "r", " ", "A", "r", "i", "b", "a", " ", "N", "e", "t", "w", "o", "r", "k", ",", " ", "s", "u", "b", "m", "i", "t", " ", "d", "i", "g", "i", "t", "a", "l", "l", "y", " ", "s", "i", "g", "n", "e", "d", " ", "i", "n", "v", "o", "i", "c", "e", " ", "t", "o", " ", "P", "O", " ", "I", "n", "v", "o", "i", "c", "e", ":", " ", "I", "N", "_", "P", "O", "_", "I", "n", "v", "o", "i", "c", "e", "@", "B", "a", "k", "e", "r", "H", "u", "g", "h", "e", "s", ".", "c", "o", "m">>),
        hardcopy_requirement |->
            Str(<<"F", "o", "r", " ", "n", "o", "n", "-", "d", "i", "g", "i", "t", "a", "l", "l", "y", " ", "s", "i", "g", "n", "e", "d", " ", "i", "n", "v", "o", "i", "c", "e", "s", " ", "h", "a", "r", "d", "c", "o", "p", "y", " ", "i", "s", " ", "m", "a", "n", "d", "a", "t", "o", "r", "y", " ", "f", "o", "r", " ", "a", "r", "c", "h", "i", "v", "i", "n", "g", ",", " ", "w", "i", "t", "h", "o", "u", "t", " ", "w", "h", "i", "c", "h", " ", "p", "a", "y", "m", "e", "n", "t", " ", "w", "i", "l", "l", " ", "n", "o", "t", " ", "g", "e", "t", " ", "p", "r", "o", "c", "e", "s", "s", "e", "d", ".">>),
        mailroom_address |->
            Str(<<"A", "t", "t", "e", "n", "t", "i", "o", "n", " ", "t", "o", " ", ":", " ", "D", "i", "n", "e", "s", "h", " ", "K", "u", "m", "a", "r", " ", "M", "P", ",", " ", "P", "r", "o", "c", "e", "s", "s", " ", "N", "a", "m", "e", ":", " ", "B", "a", "k", "e", "r", " ", "H", "u", "g", "h", "e", "s", ",", " ", "C", "r", "o", "w", "n", " ", "W", "o", "r", "l", "d", "w", "i", "d", "e", " ", "G", "r", "o", "u", "p", ",", " ", "3", "3", "/", "1", "A", ",", " ", "K", "e", "n", "g", "a", "l", " ", "K", "e", "m", "p", "o", "h", "a", "l", "l", "i", ",", " ", "D", "o", "b", "b", "a", "s", "p", "e", "t", ",", " ", "N", "e", "l", "a", "m", "a", "n", "g", "a", "l", "a", " ", "T", "a", "l", "u", "k", ",", " ", "T", "u", "m", "k", "u", "r", " ", "R", "o", "a", "d", ",", " ", "B", "a", "n", "g", "a", "l", "o", "r", "e", " ", "R", "u", "r", "a", "l", " ", "D", "i", "s", "t", "r", "i", "c", "t", ",", " ", "B", "a", "n", "g", "a", "l", "o", "r", "e", " ", "-", " ", "5", "6", "2", " ", "1", "1", "1", ".">>),
        ariba_support |->
            Str(<<"F", "o", "r", " ", "A", "r", "i", "b", "a", " ", "r", "e", "g", "i", "s", "t", "r", "a", "t", "i", "o", "n", " ", "h", "e", "l", "p", ",", " ", "p", "l", "e", "a", "s", "e", " ", "c", "o", "n", "t", "a", "c", "t", ":", " ", "s", "u", "p", "p", "l", "i", "e", "r", ".", "e", "n", "a", "b", "l", "e", "m", "e", "n", "t", "@", "b", "a", "k", "e", "r", "h", "u", "g", "h", "e", "s", ".", "c", "o", "m", ".">>)])

extract_msmed_declaration(text) ==
    Str(<<"I", "n", " ", "e", "v", "e", "n", "t", " ", "o", "f", " ", "s", "u", "p", "p", "l", "i", "e", "r", " ", "/", " ", "V", "e", "n", "d", "o", "r", " ", "q", "u", "a", "l", "i", "f", "y", "i", "n", "g", " ", "a", "s", " ", "M", "i", "c", "r", "o", ",", " ", "s", "m", "a", "l", "l", " ", "o", "r", " ", "m", "e", "d", "i", "u", "m", " ", "e", "n", "t", "e", "r", "p", "r", "i", "s", "e", " ", "a", "s", " ", "d", "e", "f", "i", "n", "e", "d", " ", "u", "n", "d", "e", "r", " ", "M", "S", "M", "E", "D", " ", "A", "c", "t", " ", "2", "0", "0", "6", ",", " ", "d", "e", "c", "l", "a", "r", "a", "t", "i", "o", "n", " ", "a", "l", "o", "n", "g", " ", "w", "i", "t", "h", " ", "c", "e", "r", "t", "i", "f", "i", "c", "a", "t", "e", "s", " ", "s", "h", "a", "l", "l", " ", "b", "e", " ", "s", "u", "b", "m", "i", "t", "t", "e", "d", " ", "t", "o", " ", "t", "h", "e", " ", "C", "o", "m", "p", "a", "n", "y">>)

extract_quality_documents(text) ==
    Str(<<"C", "o", "n", "t", "a", "c", "t", " ", "B", "u", "y", "e", "r", " ", "f", "o", "r", " ", "s", "u", "b", "m", "i", "t", "t", "i", "n", "g", " ", "q", "u", "a", "l", "i", "t", "y", " ", "d", "o", "c", "u", "m", "e", "n", "t", "s", " ", "a", "s", " ", "r", "e", "q", "u", "i", "r", "e", "d", " ", "b", "y", " ", "P", "O", " ", ".">>)

\* PAN[.:\s]*([A-Z]{5}\d{4}[A-Z])
extract_pan_card(text) ==
    StrippedGroup(text,
        re_search(Literal(<<"P", "A", "N">>) \o
                  <<AtLeast(0, <<OneOf(Whitespace \cup {".", ":"})>>), GroupOpen, Repeat(5, 5, <<OneOf(UpperCase)>>), Repeat(4, 4, <<OneOf(Digit)>>), OneOf(UpperCase), GroupClose>>,
                  text, TRUE))

\* GSTN[.:\s]*([A-Z0-9]{15})
extract_gstn_number(text) ==
    StrippedGroup(text,
        re_search(Literal(<<"G", "S", "T", "N">>) \o
                  <<AtLeast(0, <<OneOf(Whitespace \cup {".", ":"})>>), GroupOpen, Repeat(15, 15, <<OneOf(UpperCase \cup Digit)>>), GroupClose>>,
                  text, TRUE))

extract_governing_terms(text) ==
    Str(<<"B", "a", "k", "e", "r", " ", "H", "u", "g", "h", "e", "s", " ", "S", "t", "a", "n", "d", "a", "r", "d", " ", "T", "e", "r", "m", "s", " ", "o", "f", " ", "P", "u", "r", "c", "h", "a", "s", "e", " ", "(", "R", "e", "v", " ", "C", ")", " ", "a", "p", "p", "l", "y", " ", "t", "o", " ", "t", "h", "i", "s", " ", "o", "r", "d", "e", "r">>)

extract_project_number(text) == None

extract_sales_order_number(text) == None

extract_shipping_via(text) == None
(***************************************************************************)
(* parse_purchase_order_data (main.py 148-270): one definition for each    *)
(* local it assigns, one safe_extract call per field, and the dict it      *)
(* returns.                                                                *)
(***************************************************************************)
\* the default handed to safe_extract for line_items (main.py 202-218)
BlankLineItems ==
    List(<<Dict([line_number |-> Str(<<>>), part_number |-> Str(<<>>), description |-> Str(<<>>), quantity |-> Str(<<>>),
                 uom |-> Str(<<>>), price |-> Str(<<>>), price_currency |-> Str(<<>>), extended_price |-> Str(<<>>),
                 taxable |-> Str(<<>>), promise_date |-> Str(<<>>), required_by_date |-> Str(<<>>), hsn_code |-> Str(<<>>)])>>)

\* main.py 152-159
metadata(text, filename) ==
    [document_type |-> Str(<<"P", "U", "R", "C", "H", "A", "S", "E", "_", "O", "R", "D", "E", "R">>),
     file_name |-> Str(filename),
     total_pages |->
        IF count(text, "\f") > 0 THEN IntVal(count(text, "\f") + 1)
        ELSE IntVal(1),
     company_name |->
        safe_extract([t \in {text} |-> extract_company_name(t)], text, Str(<<>>)),
     company_address |->
        safe_extract([t \in {text} |-> extract_company_address(t)], text, Str(<<>>)),
     company_phone |->
        safe_extract([t \in {text} |-> extract_company_phone(t)], text, Str(<<>>))]

\* main.py 161-170
order_details(text) ==
    [po_number |->
        safe_extract([t \in {text} |-> extract_po_number(t)], text, Str(<<>>)),
     po_date |->
        safe_extract([t \in {text} |-> extract_date(t, <<"P", "O", " ", "D", "a", "t", "e">>)], text, Str(<<>>)),
     revision_number |->
        safe_extract([t \in {text} |-> extract_revision_number(t)], text, Str(<<"0">>)),
     revision_date |->
        safe_extract([t \in {text} |-> extract_date(t, <<"R", "e", "v", "i", "s", "i", "o", "n", " ", "D", "a", "t", "e">>)], text, Str(<<>>)),
     buyer_contact |->
        safe_extract([t \in {text} |-> extract_buyer_contact(t)], text, Str(<<>>)),
     buyer_phone |->
        safe_extract([t \in {text} |-> extract_buyer_phone(t)], text, Str(<<>>)),
     buyer_email |->
        safe_extract([t \in {text} |-> extract_buyer_email(t)], text, Str(<<>>))]

\* main.py 172-182
supplier_details(text) ==
    [name |->
        safe_extract([t \in {text} |-> extract_supplier_name(t)], text, Str(<<>>)),
     address |->
        safe_extract([t \in {text} |-> extract_supplier_address(t)], text, Str(<<>>)),
     contact_person_phone |->
        safe_extract([t \in {text} |-> extract_supplier_phone(t)], text, Str(<<>>)),
     contact_person_email |->
        safe_extract([t \in {text} |-> extract_supplier_email(t)], text, Str(<<>>)),
     gsl_number |->
        safe_extract([t \in {text} |-> extract_gsl_number(t)], text, Str(<<>>)),
     site_code |->
        safe_extract([t \in {text} |-> extract_site_code(t)], text, Str(<<>>)),
     supplier_code |->
        safe_extract([t \in {text} |-> extract_supplier_code(t)], text, Str(<<>>)),
     vendor_gst |->
        safe_extract([t \in {text} |-> extract_vendor_gst(t)], text, Str(<<>>))]

\* main.py 184-188
ship_to_details(text) ==
    [name |->
        safe_extract([t \in {text} |-> extract_ship_to_name(t)], text, Str(<<>>)),
     address |->
        safe_extract([t \in {text} |-> extract_ship_to_address(t)], text, Str(<<>>))]

\* main.py 190-199
administrative_details(text) ==
    [email_invoice_to |->
        safe_extract([t \in {text} |-> extract_invoice_email(t)], text, Str(<<>>)),
     incoterms |->
        safe_extract([t \in {text} |-> extract_incoterms(t)], text, Str(<<>>)),
     currency |->
        safe_extract([t \in {text} |-> extract_currency(t)], text, Str(<<>>)),
     payment_terms |->
        safe_extract([t \in {text} |-> extract_payment_terms(t)], text, Str(<<>>)),
     project_number |->
        safe_extract([t \in {text} |-> extract_project_number(t)], text, Str(<<>>)),
     sales_order_number |->
        safe_extract([t \in {text} |-> extract_sales_order_number(t)], text, Str(<<>>)),
     shipping_via |->
        safe_extract([t \in {text} |-> extract_shipping_via(t)], text, Str(<<>>))]

\* main.py 201-218
line_items(text) ==
    safe_extract([t \in {text} |-> extract_line_items(t)], text, BlankLineItems)

\* main.py 220-224
totals(text) ==
    [total_extended_net_price |->
        safe_extract([t \in {text} |-> extract_total_amount(t)], text, Str(<<>>)),
     currency |->
        safe_extract([t \in {text} |-> extract_currency(t)], text, Str(<<>>))]

\* main.py 226-229
special_instructions(text) ==
    safe_extract([t \in {text} |-> extract_special_instructions(t)], text, EmptyDict)

\* main.py 231-233
invoicing_instructions(text) ==
    safe_extract([t \in {text} |-> extract_invoicing_instructions(t)], text, EmptyDict)

\* main.py 235-241
tax_and_compliance(text) ==
    [msmed_declaration |->
        safe_extract([t \in {text} |-> extract_msmed_declaration(t)], text, Str(<<>>)),
     quality_documents |->
        safe_extract([t \in {text} |-> extract_quality_documents(t)], text, Str(<<>>)),
     pan_card |->
        safe_extract([t \in {text} |-> extract_pan_card(t)], text, Str(<<>>)),
     gstn_no |->
        safe_extract([t \in {text} |-> extract_gstn_number(t)], text, Str(<<>>))]

\* main.py 243-250
terms_and_conditions(text) ==
    [governing_terms |->
        safe_extract([t \in {text} |-> extract_governing_terms(t)], text, Str(<<>>)),
     source |-> Str(<<>>),
     order_of_precedence |-> List(<<>>)]

\* main.py 252-255
approval ==
    [method |-> Str(<<"E", "L", "E", "C", "T", "R", "O", "N", "I", "C", "A", "L", "L", "Y", " ", "A", "P", "P", "R", "O", "V", "E", "D", ".", " ", "N", "O", " ", "S", "I", "G", "N", "A", "T", "U", "R", "E", " ", "R", "E", "Q", "U", "I", "R", "E", "D">>)]

\* the locals at the return statement
ParseLocals(text, filename) ==
    [metadata |-> metadata(text, filename),
     order_details |-> order_details(text),
     supplier_details |-> supplier_details(text),
     ship_to_details |-> ship_to_details(text),
     administrative_details |-> administrative_details(text),
     line_items |-> line_items(text),
     totals |-> totals(text),
     special_instructions |-> special_instructions(text),
     invoicing_instructions |-> invoicing_instructions(text),
     tax_and_compliance |-> tax_and_compliance(text),
     terms_and_conditions |-> terms_and_conditions(text),
     approval |-> approval]

\* the dict returned (main.py 257-270): special_instructions,
\* invoicing_instructions, tax_and_compliance and terms_and_conditions are
\* commented out of it
ReturnedDict(locals) ==
    [metadata |-> locals.metadata,
     order_details |-> locals.order_details,
     supplier_details |-> locals.supplier_details,
     ship_to_details |-> locals.ship_to_details,
     administrative_details |-> locals.administrative_details,
     line_items |-> locals.line_items,
     totals |-> locals.totals,
     approval |-> locals.approval]

parse_purchase_order_data(text, filename) ==
    ReturnedDict(ParseLocals(text, filename))

(***************************************************************************)
(* Calls of parse_purchase_order_data on texts put together from chunks    *)
(* of purchase-order text: labels with and without a value, values no      *)
(* pattern accepts, a form feed.                                           *)
(***************************************************************************)
Chunks ==
    <<<<"P", "U", "R", "C", "H", "A", "S", "E", " ", "O", "R", "D", "E", "R", " ", "N", "O", ":", " ", "P", "O", "1", "2", "3", "4", "5", "\n">>,
      <<"R", "e", "v", "i", "s", "i", "o", "n", " ", "N", "o", ":", " ", "7", " ">>,
      <<"\f">>,
      <<"P", "O", " ", "D", "a", "t", "e", ":", " ", "1", "2", ".", "A", "U", "G", ".", "2", "0", "2", "6", " ", "R", "e", "v", "i", "s", "i", "o", "n", " ", "D", "a", "t", "e", " ", "1", ".", "S", "E", "P", "T", ".", "2", "0", "2", "6", "\n">>,
      <<"B", "u", "y", "e", "r", " ", "C", "o", "n", "t", "a", "c", "t", ":", " ", "J", "o", "h", "n", " ", "D", ".", "\n", "B", "u", "y", "e", "r", " ", "P", "h", "o", "n", "e", ":", " ", " ", "\n">>,
      <<"a", "@", "b", ".", "c", "o", " ", "s", "a", "l", "e", "s", "@", "v", "a", "l", "v", "e", "t", "e", "c", "q", ".", "c", "o", "m", " ", "P", ":", " ", "9", "8", "7", "6", "5", "4", "3", "2", "1", "0", " ", "G", "S", "T", "N", ":", " ", "3", "3", "A", "A", "A", "A", "A", "0", "0", "0", "0", "A", "1", "Z", "5", "\n">>,
      <<"V", "e", "n", "d", "o", "r", " ", "N", "a", "m", "e", ":", " ", "A", "C", "M", "E", "\n", "S", "u", "p", "p", "l", "i", "e", "r", " ", "N", "a", "m", "e", ":", "\n">>,
      <<"I", "n", "c", "o", "t", "e", "r", "m", "s", ":", " ", " ", " ", "\n", "C", "u", "r", "r", "e", "n", "c", "y", ":", " ", "I", "N", "R", "\n">>,
      <<"T", "o", "t", "a", "l", " ", "E", "x", "t", "e", "n", "d", "e", "d", " ", "N", "e", "t", " ", "P", "r", "i", "c", "e", ":", " ", "1", "6", ",", "4", "8", "4", ".", "5", "0">>,
      <<"T", "o", "t", "a", "l", " ", "E", "x", "t", "e", "n", "d", "e", "d", " ", "N", "e", "t", " ", "P", "r", "i", "c", "e", ":", " ", ",">>>>

\* the chunks of `picks`, a sequence of indices into `chunks`, joined
RECURSIVE Join(_, _)
Join(chunks, picks) ==
    IF picks = <<>> THEN <<>>
    ELSE chunks[Head(picks)] \o Join(chunks, Tail(picks))

\* every text of at most MaxChunks of the chunks
Texts(chunks) == {Join(chunks, picks) : picks \in SeqUpTo(DOMAIN chunks, MaxChunks)}

\* one call; its frame keeps the locals at the return statement and the dict
\* returned
ParsePurchaseOrder ==
    /\ Len(po.frames) < Len(po.texts)
    /\ po' = [po EXCEPT
                !.frames =
                    LET locals == ParseLocals(po.texts[Len(po.frames) + 1],
                                              po.filename)
                    IN  Append(@, [locals |-> locals,
                                   returned |-> ReturnedDict(locals)])]
    /\ UNCHANGED <<safe, http, entities, tables, rules, supplier>>

(***************************************************************************)
(* One call of extract_supplier_name on texts put together from labels     *)
(* with and without a value and the company name in lower case.            *)
(***************************************************************************)
SupplierChunks ==
    <<<<"S", "u", "p", "p", "l", "i", "e", "r", " ", "N", "a", "m", "e", ":", " ", "A", "C", "M", "E", " ", "\n">>,
      <<"V", "e", "n", "d", "o", "r", " ", "N", "a", "m", "e", ":", " ", "B", "o", "l", "t", "\n">>,
      <<"v", "a", "l", "v", "e", "t", "e", "c", "q", " ", "e", "n", "g", "i", "n", "e", "e", "r", "s", " ">>,
      <<"S", "u", "p", "p", "l", "i", "e", "r", " ", "N", "a", "m", "e">>,
      <<"\n">>,
      <<"v", "e", "n", "d", "o", "r", " ", "n", "a", "m", "e", ":">>,
      <<":", " ">>>>

ExtractSupplierName ==
    /\ supplier.result = NotCalled
    /\ supplier' = [supplier EXCEPT !.result = extract_supplier_name(supplier.text)]
    /\ UNCHANGED <<safe, http, po, entities, tables, rules>>
(***************************************************************************)
(* PDF bytes, as the two libraries see them.  `reader` is what PyPDF2 does *)
(* with the bytes, `opens` whether pdfplumber.open succeeds, and each page *)
(* carries what page.extract_text() does: a str, None, or an exception.    *)
(***************************************************************************)
PageTexts ==
    {<<>>,
     <<"P", "U", "R", "C", "H", "A", "S", "E", " ", "O", "R", "D", "E", "R", " ", "N", "O", ":", " ", "P", "O", "1", "2", "3", "4", "5", "\n", "R", "e", "v", "i", "s", "i", "o", "n", " ", "N", "o", ":", " ", "7">>,
     <<" ", "T", "o", "t", "a", "l", " ", "E", "x", "t", "e", "n", "d", "e", "d", " ", "N", "e", "t", " ", "P", "r", "i", "c", "e", ":", " ", "1", "6", ",", "4", "8", "4", ".", "5", "0", " ", "\f">>}

PdfFiles ==
    [reader : {"raises", "no_metadata", "untitled", "titled"},
     opens : BOOLEAN,
     pages : SeqUpTo([extract_text : {Str(t) : t \in PageTexts}
                                        \cup {None, Raise("PDFSyntaxError")},
                      width : {612}, height : {792}],
                     MaxPages)]

\* str(e) of a caught exception
ExceptionText(exc) == Str(<<exc>>)

(***************************************************************************)
(* extract_pdf_data (main.py 49-91).                                       *)
(***************************************************************************)
\* the loop over pdf.pages (main.py 73-86): i is page_num, `result` holds the
\* pages appended so far; an exception leaves the loop for the except clause
RECURSIVE ExtractPages(_, _, _, _)
ExtractPages(pages, i, result, full_text) ==
    IF i > Len(pages)
    THEN [result EXCEPT !.text = Str(strip(full_text))]
    ELSE LET extracted == pages[i].extract_text
             page_text == IF extracted = None \/ extracted = Str(<<>>)
                          THEN <<>> ELSE extracted.s
             page_data == [page_number |-> i, text |-> Str(page_text),
                           width |-> pages[i].width, height |-> pages[i].height]
         IN  IF IsRaise(extracted)
             THEN IF IsException(extracted.exc)
                  THEN result @@ [error |-> ExceptionText(extracted.exc)]
                  ELSE extracted
             ELSE ExtractPages(pages, i + 1,
                               [result EXCEPT !.pages = Append(@, page_data)],
                               full_text \o page_text \o <<"\n", "\n">>)

extract_pdf_data_reraising(pdf_bytes) ==
    IF pdf_bytes.reader \in {"raises", "no_metadata"} \/ ~pdf_bytes.opens
       \/ \E i \in 1..Len(pdf_bytes.pages) : IsRaise(pdf_bytes.pages[i].extract_text)
    THEN Raise("Exception")
    ELSE ExtractPages(pdf_bytes.pages, 1,
            [metadata |-> Dict([title |-> IF pdf_bytes.reader = "titled"
                                          THEN Str(<<"T">>) ELSE Str(<<>>),
                                author |-> Str(<<>>),
                                total_pages |-> Len(pdf_bytes.pages)]),
             pages |-> <<>>, text |-> Str(<<>>),
             total_pages |-> Len(pdf_bytes.pages)], <<>>)

extract_pdf_data(pdf_bytes) ==
    LET result == [metadata |-> EmptyDict, pages |-> <<>>, text |-> Str(<<>>),
                   total_pages |-> 0]
        \* main.py 62-69: PyPDF2
        with_metadata ==
            [result EXCEPT
               !.metadata = Dict([title |-> IF pdf_bytes.reader = "titled"
                                            THEN Str(<<"T">>) ELSE Str(<<>>),
                                  author |-> Str(<<>>),
                                  total_pages |-> Len(pdf_bytes.pages)]),
               !.total_pages = Len(pdf_bytes.pages)]
    IN  IF pdf_bytes.reader = "raises"
        THEN result @@ [error |-> ExceptionText("PdfReadError")]
        ELSE IF pdf_bytes.reader = "no_metadata"
        THEN result @@ [error |-> ExceptionText("AttributeError")]
        \* main.py 72-86: pdfplumber
        ELSE IF ~pdf_bytes.opens
        THEN with_metadata @@ [error |-> ExceptionText("PDFSyntaxError")]
        ELSE ExtractPages(pdf_bytes.pages, 1, with_metadata, <<>>)

(***************************************************************************)
(* extract_text_from_pdf (main.py 136-146) and extract_purchase_order_data *)
(* (main.py 124-134).                                                      *)
(***************************************************************************)
RECURSIVE JoinPages(_, _, _)
JoinPages(pages, i, full_text) ==
    IF i > Len(pages) THEN Str(full_text)
    ELSE LET extracted == pages[i].extract_text
             page_text == IF extracted = None \/ extracted = Str(<<>>)
                          THEN <<>> ELSE extracted.s
         IN  IF IsRaise(extracted)
             THEN Raise("Exception")
             ELSE JoinPages(pages, i + 1, full_text \o page_text \o <<"\n", "\n">>)

extract_text_from_pdf_empty_on_failure(pdf_bytes) ==
    IF ~pdf_bytes.opens \/ IsRaise(JoinPages(pdf_bytes.pages, 1, <<>>))
    THEN Str(<<>>)
    ELSE JoinPages(pdf_bytes.pages, 1, <<>>)

extract_text_from_pdf(pdf_bytes) ==
    IF ~pdf_bytes.opens
    THEN Raise("Exception")
    ELSE JoinPages(pdf_bytes.pages, 1, <<>>)

extract_purchase_order_data(pdf_bytes, filename) ==
    LET full_text == extract_text_from_pdf(pdf_bytes)
    IN  IF IsRaise(full_text) THEN full_text
        ELSE parse_purchase_order_data(full_text.s, filename)

(***************************************************************************)
(* advanced_converter.py: extract_structured_data.                         *)
(***************************************************************************)
patterns ==
    [\* \b[A-Za-z0-9._%+-]+@[A-Za-z0-9.-]+\.[A-Z|a-z]{2,}\b
     emails |->
        <<Boundary, AtLeast(1, <<OneOf(UpperCase \cup LowerCase \cup Digit \cup {".", "_", "%", "+", "-"})>>)>> \o
        Literal(<<"@">>) \o
        <<AtLeast(1, <<OneOf(UpperCase \cup LowerCase \cup Digit \cup {".", "-"})>>)>> \o
        Literal(<<".">>) \o
        <<AtLeast(2, <<OneOf(UpperCase \cup LowerCase \cup {"|"})>>), Boundary>>,
     \* \b(?:\+?\d{1,3}[-.\s]?)?\(?\d{3}\)?[-.\s]?\d{3}[-.\s]?\d{4}\b
     phone_numbers |->
        <<Boundary, Repeat(0, 1, <<Repeat(0, 1, Literal(<<"+">>)), Repeat(1, 3, <<OneOf(Digit)>>), Repeat(0, 1, <<OneOf(Whitespace \cup {"-", "."})>>)>>), Repeat(0, 1, Literal(<<"(">>)), Repeat(3, 3, <<OneOf(Digit)>>), Repeat(0, 1, Literal(<<")">>)), Repeat(0, 1, <<OneOf(Whitespace \cup {"-", "."})>>), Repeat(3, 3, <<OneOf(Digit)>>), Repeat(0, 1, <<OneOf(Whitespace \cup {"-", "."})>>), Repeat(4, 4, <<OneOf(Digit)>>), Boundary>>,
     \* https?://(?:[-\w.]|(?:%[\da-fA-F]{2}))+[/\w\.-]*\??[/\w\.-=&]*
     urls |->
        Literal(<<"h", "t", "t", "p">>) \o
        <<Repeat(0, 1, Literal(<<"s">>))>> \o
        Literal(<<":", "/", "/">>) \o
        <<AtLeast(1, <<Branch(<<<<OneOf(WordChar \cup {"-", "."})>>, Literal(<<"%">>) \o <<Repeat(2, 2, <<OneOf(Digit \cup {"a", "b", "c", "d", "e", "f", "A", "B", "C", "D", "E", "F"})>>)>>>>)>>), AtLeast(0, <<OneOf(WordChar \cup {"/", ".", "-"})>>), Repeat(0, 1, Literal(<<"?">>)), AtLeast(0, <<OneOf(WordChar \cup Digit \cup {"/", ".", ":", ";", "<", "=", "&"})>>)>>,
     \* \b\d{1,2}[/-]\d{1,2}[/-]\d{2,4}\b
     dates |->
        <<Boundary, Repeat(1, 2, <<OneOf(Digit)>>), OneOf({"/", "-"}), Repeat(1, 2, <<OneOf(Digit)>>), OneOf({"/", "-"}), Repeat(2, 4, <<OneOf(Digit)>>), Boundary>>]

\* the sequences list(s) can be for a set s: every order of its elements
Orderings(s) ==
    {order \in [1..Cardinality(s) -> s] :
        \A x \in s : \E i \in DOMAIN order : order[i] = x}

\* list(matches): the matches as found, a repeated one repeated
list_of_matches(matches) == {matches}

\* list(set(matches)): the order in which a set of str is iterated is the
\* interpreter's, so every order is a possible list
list_of_set(matches) == Orderings({matches[i] : i \in DOMAIN matches})

\* the dicts a call can return
extract_structured_data(text) ==
    [emails : list_of_set(re_findall(patterns.emails, text, TRUE)),
     phone_numbers : list_of_set(re_findall(patterns.phone_numbers, text, TRUE)),
     urls : list_of_set(re_findall(patterns.urls, text, TRUE)),
     dates : list_of_set(re_findall(patterns.dates, text, TRUE))]

\* texts with addresses, numbers, links and dates, some of them repeated or
\* differing in case only
EntityChunks ==
    <<<<"a", "@", "b", ".", "c", "o", " ">>, <<"A", "@", "b", ".", "C", "O">>, <<" ", "b", "@", "c", ".", "d", "e">>, <<"\n">>, <<"1", "/", "2", "/", "2", "0", "2", "0", " ">>, <<"1", "2", "-", "3", "-", "9", "9">>,
      <<"5", "5", "5", "-", "1", "2", "3", "-", "4", "5", "6", "7", " ">>, <<"h", "t", "t", "p", ":", "/", "/", "x", ".", "y", "/", "z", "?", "a", "=", "1", " ">>, <<"+", "1", " ", "(", "5", "5", "5", ")", " ", "1", "2", "3", ".", "4", "5", "6", "7">>>>

ExtractStructuredData ==
    /\ entities.result = NotCalled
    /\ \E result \in extract_structured_data(entities.text) :
          entities' = [entities EXCEPT !.result = result]
    /\ UNCHANGED <<safe, http, po, tables, rules, supplier>>

(***************************************************************************)
(* advanced_converter.py: extract_with_camelot and extract_with_tabula.    *)
(* Two invocations run at once, in threads or processes of one working     *)
(* directory.  Each one opens the file, which empties it; writes its bytes *)
(* when the with block closes the file; then has the library read the      *)
(* file by name.  The library is a black box: what it returns stands as    *)
(* the tables of the bytes it read.                                        *)
(***************************************************************************)
\* a file of its own for each invocation
request_scoped_pdf(invocation) ==
    IF invocation = 1 THEN "temp-1.pdf" ELSE "temp-2.pdf"

\* the file name both extractors open and hand to the library
temp_pdf(invocation) == "temp.pdf"

\* open(path, "wb"): the file is created or emptied
open_wb(files, path) ==
    [p \in DOMAIN files \cup {path} |-> IF p = path THEN <<>> ELSE files[p]]

\* f.write(pdf_bytes) and the close of f: the bytes go to the file from its
\* start, over what another writer has put there since the open
write(files, path, pdf_bytes) ==
    [files EXCEPT ![path] =
        pdf_bytes \o SubSeq(@, Len(pdf_bytes) + 1, Len(@))]

\* camelot.read_pdf(path, ...) or tabula.read_pdf(path, ...) and the dict
\* built from it
read_pdf(extractor, files, path) ==
    [tables_by |-> extractor, tables_of |-> files[path]]

TableCalls ==
    [extractor : {"extract_with_camelot", "extract_with_tabula"},
     pdf_bytes : SeqUpTo({"a", "b"}, MaxBytes) \ {<<>>}, pc : {"start"},
     returned : {NotCalled}]

OpenTempPdf(i) ==
    /\ tables.calls[i].pc = "start"
    /\ tables' = [tables EXCEPT
                    !.files = open_wb(@, temp_pdf(i)),
                    !.calls[i].pc = "opened"]

WriteTempPdf(i) ==
    /\ tables.calls[i].pc = "opened"
    /\ tables' = [tables EXCEPT
                    !.files = write(@, temp_pdf(i), tables.calls[i].pdf_bytes),
                    !.calls[i].pc = "closed"]

ReadTempPdf(i) ==
    /\ tables.calls[i].pc = "closed"
    /\ tables' = [tables EXCEPT
                    !.calls[i].returned =
                        read_pdf(tables.calls[i].extractor, tables.files, temp_pdf(i)),
                    !.calls[i].pc = "returned"]

ExtractTables ==
    /\ \E i \in DOMAIN tables.calls :
          OpenTempPdf(i) \/ WriteTempPdf(i) \/ ReadTempPdf(i)
    /\ UNCHANGED <<safe, http, po, entities, rules, supplier>>
(***************************************************************************)
(* One call of safe_extract with an arbitrary rule.  The rule is a         *)
(* function from the text to what the call does: return a value or raise.  *)
(***************************************************************************)
SafeTexts == {<<>>, <<"x">>}

\* every rule, as what it does for each text (return a value or raise), with
\* every text and default
SafeCalls ==
    [rule : [SafeTexts ->
                {None, Str(<<>>), Str(<<"x">>), Str(<<" ">>), IntVal(0), IntVal(7),
                 Float(<<0, 0>>), Bool(FALSE), List(<<>>), List(<<Str(<<>>)>>),
                 EmptyDict, Dict([a |-> Str(<<>>)])}
                \cup {Raise(exc) : exc \in ExceptionClasses \cup BaseExceptionOnly}],
     text : SafeTexts,
     default_value : {Str(<<>>), Str(<<"0">>), List(<<EmptyDict>>), EmptyDict, None},
     result : {NotCalled}]

CallSafeExtract ==
    /\ safe.result = NotCalled
    /\ safe' = [safe EXCEPT
                  !.result = safe_extract(safe.rule, safe.text, safe.default_value)]
    /\ UNCHANGED <<http, po, entities, tables, rules, supplier>>


(***************************************************************************)
(* parse_purchase_order_data with its calls of safe_extract run in any     *)
(* order: each call is a step of its own, handed the text parameter, and   *)
(* places its value where the code assigns it; the dict is returned when   *)
(* every call has placed its value.                                        *)
(***************************************************************************)
\* the calls of safe_extract in the order of the code: the local and the key
\* the value goes to, and the default handed over
FieldCalls ==
    <<[local |-> "metadata", field |-> "company_name", default_value |-> Str(<<>>)],
      [local |-> "metadata", field |-> "company_address", default_value |-> Str(<<>>)],
      [local |-> "metadata", field |-> "company_phone", default_value |-> Str(<<>>)],
      [local |-> "order_details", field |-> "po_number", default_value |-> Str(<<>>)],
      [local |-> "order_details", field |-> "po_date", default_value |-> Str(<<>>)],
      [local |-> "order_details", field |-> "revision_number", default_value |-> Str(<<"0">>)],
      [local |-> "order_details", field |-> "revision_date", default_value |-> Str(<<>>)],
      [local |-> "order_details", field |-> "buyer_contact", default_value |-> Str(<<>>)],
      [local |-> "order_details", field |-> "buyer_phone", default_value |-> Str(<<>>)],
      [local |-> "order_details", field |-> "buyer_email", default_value |-> Str(<<>>)],
      [local |-> "supplier_details", field |-> "name", default_value |-> Str(<<>>)],
      [local |-> "supplier_details", field |-> "address", default_value |-> Str(<<>>)],
      [local |-> "supplier_details", field |-> "contact_person_phone", default_value |-> Str(<<>>)],
      [local |-> "supplier_details", field |-> "contact_person_email", default_value |-> Str(<<>>)],
      [local |-> "supplier_details", field |-> "gsl_number", default_value |-> Str(<<>>)],
      [local |-> "supplier_details", field |-> "site_code", default_value |-> Str(<<>>)],
      [local |-> "supplier_details", field |-> "supplier_code", default_value |-> Str(<<>>)],
      [local |-> "supplier_details", field |-> "vendor_gst", default_value |-> Str(<<>>)],
      [local |-> "ship_to_details", field |-> "name", default_value |-> Str(<<>>)],
      [local |-> "ship_to_details", field |-> "address", default_value |-> Str(<<>>)],
      [local |-> "administrative_details", field |-> "email_invoice_to", default_value |-> Str(<<>>)],
      [local |-> "administrative_details", field |-> "incoterms", default_value |-> Str(<<>>)],
      [local |-> "administrative_details", field |-> "currency", default_value |-> Str(<<>>)],
      [local |-> "administrative_details", field |-> "payment_terms", default_value |-> Str(<<>>)],
      [local |-> "administrative_details", field |-> "project_number", default_value |-> Str(<<>>)],
      [local |-> "administrative_details", field |-> "sales_order_number", default_value |-> Str(<<>>)],
      [local |-> "administrative_details", field |-> "shipping_via", default_value |-> Str(<<>>)],
      [local |-> "line_items", field |-> "", default_value |-> BlankLineItems],
      [local |-> "totals", field |-> "total_extended_net_price", default_value |-> Str(<<>>)],
      [local |-> "totals", field |-> "currency", default_value |-> Str(<<>>)],
      [local |-> "special_instructions", field |-> "", default_value |-> EmptyDict],
      [local |-> "invoicing_instructions", field |-> "", default_value |-> EmptyDict],
      [local |-> "tax_and_compliance", field |-> "msmed_declaration", default_value |-> Str(<<>>)],
      [local |-> "tax_and_compliance", field |-> "quality_documents", default_value |-> Str(<<>>)],
      [local |-> "tax_and_compliance", field |-> "pan_card", default_value |-> Str(<<>>)],
      [local |-> "tax_and_compliance", field |-> "gstn_no", default_value |-> Str(<<>>)],
      [local |-> "terms_and_conditions", field |-> "governing_terms", default_value |-> Str(<<>>)]>>

\* what the rule of the k-th call returns for its argument
RuleOutcome(k, text) ==
    CASE k = 1 -> extract_company_name(text)
      [] k = 2 -> extract_company_address(text)
      [] k = 3 -> extract_company_phone(text)
      [] k = 4 -> extract_po_number(text)
      [] k = 5 -> extract_date(text, <<"P", "O", " ", "D", "a", "t", "e">>)
      [] k = 6 -> extract_revision_number(text)
      [] k = 7 -> extract_date(text, <<"R", "e", "v", "i", "s", "i", "o", "n", " ", "D", "a", "t", "e">>)
      [] k = 8 -> extract_buyer_contact(text)
      [] k = 9 -> extract_buyer_phone(text)
      [] k = 10 -> extract_buyer_email(text)
      [] k = 11 -> extract_supplier_name(text)
      [] k = 12 -> extract_supplier_address(text)
      [] k = 13 -> extract_supplier_phone(text)
      [] k = 14 -> extract_supplier_email(text)
      [] k = 15 -> extract_gsl_number(text)
      [] k = 16 -> extract_site_code(text)
      [] k = 17 -> extract_supplier_code(text)
      [] k = 18 -> extract_vendor_gst(text)
      [] k = 19 -> extract_ship_to_name(text)
      [] k = 20 -> extract_ship_to_address(text)
      [] k = 21 -> extract_invoice_email(text)
      [] k = 22 -> extract_incoterms(text)
      [] k = 23 -> extract_currency(text)
      [] k = 24 -> extract_payment_terms(text)
      [] k = 25 -> extract_project_number(text)
      [] k = 26 -> extract_sales_order_number(text)
      [] k = 27 -> extract_shipping_via(text)
      [] k = 28 -> extract_line_items(text)
      [] k = 29 -> extract_total_amount(text)
      [] k = 30 -> extract_currency(text)
      [] k = 31 -> extract_special_instructions(text)
      [] k = 32 -> extract_invoicing_instructions(text)
      [] k = 33 -> extract_msmed_declaration(text)
      [] k = 34 -> extract_quality_documents(text)
      [] k = 35 -> extract_pan_card(text)
      [] k = 36 -> extract_gstn_number(text)
      [] k = 37 -> extract_governing_terms(text)

\* the locals at the return statement, put together from the values placed
AssembledLocals(placed, text, filename) ==
    [metadata |->
        [document_type |-> Str(<<"P", "U", "R", "C", "H", "A", "S", "E", "_", "O", "R", "D", "E", "R">>),
             file_name |-> Str(filename),
             total_pages |->
             IF count(text, "\f") > 0 THEN IntVal(count(text, "\f") + 1)
             ELSE IntVal(1),
             company_name |-> placed[1],
             company_address |-> placed[2],
             company_phone |-> placed[3]],
     order_details |->
        [po_number |-> placed[4],
             po_date |-> placed[5],
             revision_number |-> placed[6],
             revision_date |-> placed[7],
             buyer_contact |-> placed[8],
             buyer_phone |-> placed[9],
             buyer_email |-> placed[10]],
     supplier_details |->
        [name |-> placed[11],
             address |-> placed[12],
             contact_person_phone |-> placed[13],
             contact_person_email |-> placed[14],
             gsl_number |-> placed[15],
             site_code |-> placed[16],
             supplier_code |-> placed[17],
             vendor_gst |-> placed[18]],
     ship_to_details |->
        [name |-> placed[19],
             address |-> placed[20]],
     administrative_details |->
        [email_invoice_to |-> placed[21],
             incoterms |-> placed[22],
             currency |-> placed[23],
             payment_terms |-> placed[24],
             project_number |-> placed[25],
             sales_order_number |-> placed[26],
             shipping_via |-> placed[27]],
     line_items |-> placed[28],
     totals |->
        [total_extended_net_price |-> placed[29],
             currency |-> placed[30]],
     special_instructions |-> placed[31],
     invoicing_instructions |-> placed[32],
     tax_and_compliance |->
        [msmed_declaration |-> placed[33],
             quality_documents |-> placed[34],
             pan_card |-> placed[35],
             gstn_no |-> placed[36]],
     terms_and_conditions |->
        [governing_terms |-> placed[37],
             source |-> Str(<<>>),
             order_of_precedence |-> List(<<>>)],
     approval |-> approval]

\* the text the first call to run uses up: the calls after it find none
text_left_over(frame) ==
    IF \A k \in DOMAIN frame.placed : frame.placed[k] = NotCalled
    THEN frame.text
    ELSE <<>>

\* the argument every call hands to its rule: the parameter text
text_argument(frame) == frame.text

\* a call on a text with fields to be found or with none; the rules of
\* `raising` are made to raise, any of those of po_number, line_items and
\* the amount
RuleFrames ==
    [text : {Join(Chunks, picks) : picks \in {<<>>, <<1, 8>>, <<6, 9>>}},
     filename : {<<"a", ".", "p", "d", "f">>}, raising : SUBSET {4, 28, 29},
     placed : {[k \in DOMAIN FieldCalls |-> NotCalled]}, ahead : {FALSE},
     returned : {NotCalled}]

\* the calls before the k-th that have not placed their value
PendingBefore(k) == {j \in 1..k - 1 : rules.placed[j] = NotCalled}

\* the k-th call of safe_extract, run no more than MaxOutOfOrder calls ahead
\* of a call that is pending; `ahead` records that some call has run ahead
\* of a pending one
RunRule(k) ==
    /\ rules.placed[k] = NotCalled
    /\ \A j \in PendingBefore(k) : k - j <= MaxOutOfOrder
    /\ rules' = [rules EXCEPT
                   !.ahead = @ \/ PendingBefore(k) # {},
                   !.placed[k] =
                       safe_extract(
                           [t \in {rules.text} |->
                               IF k \in rules.raising THEN Raise("ValueError")
                               ELSE RuleOutcome(k, text_argument(rules))],
                           rules.text, FieldCalls[k].default_value)]

\* the return statement
ReturnRecord ==
    /\ rules.returned = NotCalled
    /\ \A k \in DOMAIN rules.placed : rules.placed[k] # NotCalled
    /\ rules' = [rules EXCEPT
                   !.returned = ReturnedDict(AssembledLocals(
                                    rules.placed, rules.text, rules.filename))]

RunRules ==
    /\ (\E k \in DOMAIN rules.placed : RunRule(k)) \/ ReturnRecord
    /\ UNCHANGED <<safe, http, po, entities, tables, supplier>>
(***************************************************************************)
(* The upload endpoints (main.py 27-47 and 99-122).  A handler is one      *)
(* action; `calls` lists, in order, the reads and extractor calls it made. *)
(***************************************************************************)
Filenames ==
    {<<"a", ".", "p", "d", "f">>,
     <<"A", ".", "P", "D", "F">>,
     <<"a", ".", "p", "D", "f">>,
     <<"a", "p", "d", "f">>,
     <<"a", ".", "t", "x", "t">>,
     <<>>,
     <<"a", ".", "p", "d", "f", ".", "t", "x", "t">>}

\* 10 * 1024 * 1024 (main.py 107)
MAX_FILE_SIZE == 10 * 1024 * 1024

Requests ==
    [endpoint : {"/convert/pdf2json", "/convert/po-pdf"}, filename : Filenames,
     size : {0, MAX_FILE_SIZE - 1, MAX_FILE_SIZE, MAX_FILE_SIZE + 1},
     file : PdfFiles]

NoResponse == [status_code |-> 0]

HTTPException(status_code, detail) == [status_code |-> status_code, detail |-> detail]

JSONResponse(content) == [status_code |-> 200, content |-> content]

\* a handler that tests '.pdf' in the name instead of its end
IsPdfNameAnywhere(filename) ==
    \E i \in 1..Len(filename) - 3 :
        SubSeq(lower(filename), i, i + 3) = <<".", "p", "d", "f">>

\* file.filename.lower().endswith('.pdf')
IsPdfName(filename) == endswith(lower(filename), <<".", "p", "d", "f">>)

\* a size rule that also turns away an upload of exactly the limit
ReachesMaxFileSize(size) == size >= MAX_FILE_SIZE

\* file.size > 10 * 1024 * 1024
ExceedsMaxFileSize(size) == size > MAX_FILE_SIZE

convert_pdf_to_json(request) ==
    IF ~IsPdfName(request.filename)
    THEN [calls |-> <<>>,
          response |-> HTTPException(400, "File must be a PDF")]
    ELSE LET contents == request.file
             pdf_data == extract_pdf_data(contents)
         IN  [calls |-> <<"file.read", "extract_pdf_data">>,
              response |->
                 IF IsRaise(pdf_data)
                 THEN HTTPException(500, "Error processing PDF")
                 ELSE JSONResponse([success |-> TRUE,
                                    data |-> pdf_data,
                                    message |-> "PDF converted successfully",
                                    pages |-> Len(pdf_data.pages)])]

convert_po_pdf(request) ==
    IF ~IsPdfName(request.filename)
    THEN [calls |-> <<>>,
          response |-> HTTPException(400, "File must be a PDF")]
    ELSE IF ExceedsMaxFileSize(request.size)
    THEN [calls |-> <<>>,
          response |-> HTTPException(400, "File too large")]
    ELSE LET contents == request.file
             po_data == extract_purchase_order_data(contents, request.filename)
         IN  IF IsRaise(po_data)
             THEN [calls |-> <<"file.read", "extract_purchase_order_data",
                               "extract_text_from_pdf">>,
                   response |-> HTTPException(500, "Error processing PDF")]
             ELSE [calls |-> <<"file.read", "extract_purchase_order_data",
                               "extract_text_from_pdf", "parse_purchase_order_data">>,
                   response |->
                      JSONResponse([success |-> TRUE,
                                    data |-> po_data,
                                    message |-> "Purchase Order PDF converted successfully",
                                    pages |-> po_data.metadata.total_pages.n])]

Responded(request, done) ==
    [pc |-> "responded", request |-> request, calls |-> done.calls,
     response |-> done.response]

ConvertPdfToJson ==
    /\ http.pc = "received"
    /\ http.request.endpoint = "/convert/pdf2json"
    /\ http' = Responded(http.request, convert_pdf_to_json(http.request))
    /\ UNCHANGED <<safe, po, entities, tables, rules, supplier>>

ConvertPoPdf ==
    /\ http.pc = "received"
    /\ http.request.endpoint = "/convert/po-pdf"
    /\ http' = Responded(http.request, convert_po_pdf(http.request))
    /\ UNCHANGED <<safe, po, entities, tables, rules, supplier>>

(***************************************************************************)
(* Specifications.  Each one starts a component from every input it can be *)
(* given and leaves the other components idle.                             *)
(***************************************************************************)
Init ==
    /\ http \in [pc : {"received"}, request : Requests, calls : {<<>>},
                 response : {NoResponse}]
    /\ safe = Idle
    /\ po = Idle
    /\ entities = Idle
    /\ tables = Idle
    /\ rules = Idle
    /\ supplier = Idle

Next == ConvertPdfToJson \/ ConvertPoPdf

Spec == Init /\ [][Next]_vars

InitSafe ==
    /\ safe \in SafeCalls
    /\ http = Idle
    /\ po = Idle
    /\ entities = Idle
    /\ tables = Idle
    /\ rules = Idle
    /\ supplier = Idle

SpecSafe == InitSafe /\ [][CallSafeExtract]_vars

\* one call of parse_purchase_order_data on every text and file name
InitParse ==
    /\ po \in [texts : {<<text>> : text \in Texts(Chunks)},
               filename : {<<"a", ".", "p", "d", "f">>, <<"A", ".", "P", "D", "F">>},
               frames : {<<>>}]
    /\ safe = Idle
    /\ http = Idle
    /\ entities = Idle
    /\ tables = Idle
    /\ rules = Idle
    /\ supplier = Idle

SpecParse == InitParse /\ [][ParsePurchaseOrder]_vars

\* two calls of parse_purchase_order_data, on every pair of texts
InitPair ==
    /\ po \in [texts : {<<first, second>> : first \in Texts(SubSeq(Chunks, 1, 3)), second \in Texts(SubSeq(Chunks, 1, 3))},
               filename : {<<"a", ".", "p", "d", "f">>},
               frames : {<<>>}]
    /\ safe = Idle
    /\ http = Idle
    /\ entities = Idle
    /\ tables = Idle
    /\ rules = Idle
    /\ supplier = Idle

SpecPair == InitPair /\ [][ParsePurchaseOrder]_vars

\* one call of extract_structured_data on every text
InitEntities ==
    /\ entities \in [text : Texts(EntityChunks), result : {NotCalled}]
    /\ safe = Idle
    /\ http = Idle
    /\ po = Idle
    /\ tables = Idle
    /\ rules = Idle
    /\ supplier = Idle

SpecEntities == InitEntities /\ [][ExtractStructuredData]_vars

\* two invocations of the table extractors at once, no file on disk
InitTables ==
    /\ tables \in [files : {<<>>}, calls : [1..2 -> TableCalls]]
    /\ safe = Idle
    /\ http = Idle
    /\ po = Idle
    /\ entities = Idle
    /\ rules = Idle
    /\ supplier = Idle

SpecTables == InitTables /\ [][ExtractTables]_vars

\* one call of parse_purchase_order_data, its rules run in any order
InitRules ==
    /\ rules \in RuleFrames
    /\ safe = Idle
    /\ http = Idle
    /\ po = Idle
    /\ entities = Idle
    /\ tables = Idle
    /\ supplier = Idle

SpecRules == InitRules /\ [][RunRules]_vars

\* one call of extract_supplier_name on every text
InitSupplier ==
    /\ supplier \in [text : Texts(SupplierChunks), result : {NotCalled}]
    /\ safe = Idle
    /\ http = Idle
    /\ po = Idle
    /\ entities = Idle
    /\ tables = Idle
    /\ rules = Idle

SpecSupplier == InitSupplier /\ [][ExtractSupplierName]_vars

\* C1: safe_extract returns default_value unchanged when the rule raises an
\* error (a class derived from Exception) or returns None or the empty string,
\* returns the rule's result verbatim in every other case (numbers, lists,
\* dicts and False included), and never hands the rule's error to its caller.
C1_SafeExtractContract ==
    safe.result # NotCalled =>
        LET r == safe.rule[safe.text]
        IN  /\ (IsRaise(r) /\ IsException(r.exc)) => safe.result = safe.default_value
            /\ (r = None \/ r = Str(<<>>)) => safe.result = safe.default_value
            /\ (~IsRaise(r) /\ r # None /\ r # Str(<<>>)) => safe.result = r
            /\ (IsRaise(r) /\ IsException(r.exc)) => ~IsRaise(safe.result)

\* C1 witness: a rule raised KeyError, a class the except clause does not
\* name, and the call came back with the default "0".
C1_Witness ==
    /\ safe.result # NotCalled
    /\ safe.rule[safe.text] = Raise("KeyError")
    /\ safe.default_value = Str(<<"0">>)
    /\ safe.result = Str(<<"0">>)


(***************************************************************************)
(* The upload endpoints.                                                   *)
(***************************************************************************)
Rejected == http.pc = "responded" /\ http.response.status_code \in 400..499

NoWorkDone == http.calls = <<>>

\* C2: an upload whose filename, lower-cased, does not end in .pdf is rejected
\* by both endpoints with a 4xx error, and neither a read of the upload body
\* nor any extractor happens before the rejection.
C2_NonPdfNameRejectedBeforeWork ==
    (/\ http.pc = "responded"
     /\ ~endswith(lower(http.request.filename), <<".", "p", "d", "f">>))
        => Rejected /\ NoWorkDone

\* C2 witness: a.pdf.txt, sent to /convert/po-pdf, was answered 400 with
\* nothing read.
C2_Witness ==
    /\ http.pc = "responded"
    /\ http.request.endpoint = "/convert/po-pdf"
    /\ http.request.filename = <<"a", ".", "p", "d", "f", ".", "t", "x", "t">>
    /\ http.response = HTTPException(400, "File must be a PDF")
    /\ http.calls = <<>>

\* C2 as first stated: the filename as given, upper case included, is what
\* must end in .pdf for the upload to get past the rejection.
C2_AsStated ==
    (/\ http.pc = "responded"
     /\ ~endswith(http.request.filename, <<".", "p", "d", "f">>))
        => Rejected /\ NoWorkDone

\* C3: a .pdf-named upload larger than 10 MiB is rejected by /convert/po-pdf
\* with a 4xx error before any extraction work, /convert/pdf2json reads and
\* processes the same upload, and an upload of 10 MiB or less is not rejected
\* for its size by either endpoint.
C3_SizeRuleOnlyOnPoPdf ==
    (/\ http.pc = "responded"
     /\ endswith(lower(http.request.filename), <<".", "p", "d", "f">>))
        => /\ (/\ http.request.endpoint = "/convert/po-pdf"
               /\ http.request.size > 10 * 1024 * 1024)
                  => Rejected /\ NoWorkDone
           /\ (/\ http.request.endpoint = "/convert/pdf2json"
               /\ http.request.size > 10 * 1024 * 1024)
                  => /\ ~Rejected
                     /\ http.calls = <<"file.read", "extract_pdf_data">>
           /\ http.request.size <= 10 * 1024 * 1024
                  => ~Rejected /\ http.calls[1] = "file.read"

\* C3 witness: /convert/po-pdf turned away a.pdf of 10 MiB + 1 byte.
C3_Witness ==
    /\ http.pc = "responded"
    /\ http.request.endpoint = "/convert/po-pdf"
    /\ http.request.filename = <<"a", ".", "p", "d", "f">>
    /\ http.request.size = 10 * 1024 * 1024 + 1
    /\ http.response = HTTPException(400, "File too large")

(***************************************************************************)
(* extract_pdf_data and the text source of the purchase-order path.        *)
(***************************************************************************)
\* the PyPDF2 part of extract_pdf_data came through
MetadataRead(file) == file.reader \in {"untitled", "titled"}

\* the pages pdfplumber handed over before the first failure
RECURSIVE PagesBeforeFailure(_, _)
PagesBeforeFailure(file, i) ==
    IF ~MetadataRead(file) \/ ~file.opens \/ i > Len(file.pages)
       \/ IsRaise(file.pages[i].extract_text)
    THEN i - 1
    ELSE PagesBeforeFailure(file, i + 1)

ExtractionFails(file) ==
    \/ ~MetadataRead(file)
    \/ ~file.opens
    \/ \E i \in 1..Len(file.pages) : IsRaise(file.pages[i].extract_text)

TextSourceFails(file) ==
    \/ ~file.opens
    \/ \E i \in 1..Len(file.pages) : IsRaise(file.pages[i].extract_text)

PageTextOf(page) ==
    IF page.extract_text = None THEN Str(<<>>) ELSE page.extract_text

\* C4: extract_pdf_data never raises.  When the metadata read or the page
\* loop fails, the document it returns carries an error string next to
\* what was accumulated before the failure (metadata and total_pages once
\* read, every page entry already appended), and /convert/pdf2json answers
\* success: true, not a server error.
C4_PartialDocumentOnFailure ==
    (/\ http.pc = "responded"
     /\ http.request.endpoint = "/convert/pdf2json"
     /\ endswith(lower(http.request.filename), <<".", "p", "d", "f">>))
        => /\ http.response.status_code = 200
           /\ http.response.content.success = TRUE
           /\ LET file == http.request.file
                  data == http.response.content.data
                  n == PagesBeforeFailure(file, 1)
              IN  /\ ExtractionFails(file) =>
                        /\ "error" \in DOMAIN data
                        /\ data.error.kind = "str"
                  /\ MetadataRead(file) =>
                        /\ data.total_pages = Len(file.pages)
                        /\ data.metadata.d.total_pages = Len(file.pages)
                        /\ data.metadata.d.title.s
                              = IF file.reader = "titled" THEN <<"T">> ELSE <<>>
                  /\ Len(data.pages) = n
                  /\ \A i \in 1..n :
                        /\ data.pages[i].page_number = i
                        /\ data.pages[i].text = PageTextOf(file.pages[i])
                        /\ data.pages[i].width = file.pages[i].width
                        /\ data.pages[i].height = file.pages[i].height
                  /\ http.response.content.pages = n

\* C4 witness: the second page failed; the answer is 200 with the error and
\* the first page's entry.
C4_Witness ==
    /\ http.pc = "responded"
    /\ http.request.endpoint = "/convert/pdf2json"
    /\ http.request.filename = <<"a", ".", "p", "d", "f">>
    /\ http.request.file.reader = "titled"
    /\ http.request.file.opens
    /\ Len(http.request.file.pages) = 2
    /\ ~IsRaise(http.request.file.pages[1].extract_text)
    /\ IsRaise(http.request.file.pages[2].extract_text)
    /\ http.response.status_code = 200
    /\ "error" \in DOMAIN http.response.content.data
    /\ Len(http.response.content.data.pages) = 1

LeafFields ==
    [metadata |-> {"document_type", "file_name", "total_pages", "company_name",
                   "company_address", "company_phone"},
     order_details |-> {"po_number", "po_date", "revision_number",
                        "revision_date", "buyer_contact", "buyer_phone",
                        "buyer_email"},
     supplier_details |-> {"name", "address", "contact_person_phone",
                           "contact_person_email", "gsl_number", "site_code",
                           "supplier_code", "vendor_gst"},
     ship_to_details |-> {"name", "address"},
     administrative_details |-> {"email_invoice_to", "incoterms", "currency",
                                 "payment_terms", "project_number",
                                 "sales_order_number", "shipping_via"},
     totals |-> {"total_extended_net_price", "currency"},
     approval |-> {"method"}]

\* a value a leaf may hold: anything a rule or literal produced, but not None
\* and not an exception
IsPresent(v) == v # None /\ ~IsRaise(v)

\* s holds sub, whatever the case of its letters
ContainsFolded(s, sub) ==
    \E i \in 1..Len(s) - Len(sub) + 1 :
        SubSeq(lower(s), i, i + Len(sub) - 1) = lower(sub)

\* the value a local holds for a call of safe_extract
Leaf(locals, call) ==
    IF call.field = "" THEN locals[call.local]
    ELSE locals[call.local][call.field]

\* C6: for every text and filename parse_purchase_order_data returns a
\* record with exactly the groups metadata, order_details, supplier_details,
\* ship_to_details, administrative_details, line_items, totals and approval;
\* every leaf is present and never None; a field whose rule finds nothing
\* holds its default, "" or, for revision_number, "0".
C6_EveryLeafPresent ==
    \A i \in 1..Len(po.frames) :
        LET record == po.frames[i].returned
            text == po.texts[i]
        IN  /\ DOMAIN record = DOMAIN LeafFields \cup {"line_items"}
            /\ \A group \in DOMAIN LeafFields :
                  /\ DOMAIN record[group] = LeafFields[group]
                  /\ \A field \in LeafFields[group] :
                        IsPresent(record[group][field])
            /\ record.line_items.kind = "list"
            /\ \A n \in 1..Len(record.line_items.items) :
                  \A field \in DOMAIN record.line_items.items[n].d :
                      IsPresent(record.line_items.items[n].d[field])
            /\ ~ContainsFolded(text, <<"R", "e", "v", "i", "s", "i", "o", "n", " ", "N", "o">>)
                  => record.order_details.revision_number = Str(<<"0">>)
            /\ ~ContainsFolded(text, <<"P", "U", "R", "C", "H", "A", "S", "E", " ", "O", "R", "D", "E", "R", " ", "N", "O">>)
                  => record.order_details.po_number = Str(<<>>)
            /\ ~ContainsFolded(text, <<"C", "u", "r", "r", "e", "n", "c", "y">>)
                  => /\ record.administrative_details.currency = Str(<<>>)
                     /\ record.totals.currency = Str(<<>>)
            /\ extract_total_amount(text) = None
                  => record.totals.total_extended_net_price = Str(<<>>)
            /\ \A k \in DOMAIN FieldCalls :
                  RuleOutcome(k, text) \in {None, Str(<<>>)}
                     => Leaf(po.frames[i].locals, FieldCalls[k])
                           = FieldCalls[k].default_value
            /\ record.administrative_details.project_number = Str(<<>>)
            /\ record.administrative_details.sales_order_number = Str(<<>>)
            /\ record.administrative_details.shipping_via = Str(<<>>)
            /\ record.metadata.file_name = Str(po.filename)

\* C6 witness: a text with a purchase order number, an amount no float can
\* be read from and no "Revision No" was parsed: revision_number is "0",
\* the amount "".
C6_Witness ==
    /\ Len(po.frames) = 1
    /\ po.texts[1] = Chunks[1] \o Chunks[10]
    /\ po.frames[1].returned.order_details.po_number = Str(<<"P", "O", "1", "2", "3", "4", "5">>)
    /\ po.frames[1].returned.order_details.revision_number = Str(<<"0">>)
    /\ po.frames[1].returned.totals.total_extended_net_price = Str(<<>>)

\* the locals a constant rule feeds, as <<local, field>>, and the constant
\* rule's own output for a text
ConstantOutputs(text) ==
    [company_name |-> extract_company_name(text),
     company_address |-> extract_company_address(text),
     company_phone |-> extract_company_phone(text),
     supplier_address |-> extract_supplier_address(text),
     ship_to_name |-> extract_ship_to_name(text),
     ship_to_address |-> extract_ship_to_address(text),
     line_items |-> extract_line_items(text),
     special_instructions |-> extract_special_instructions(text),
     invoicing_instructions |-> extract_invoicing_instructions(text),
     msmed_declaration |-> extract_msmed_declaration(text),
     quality_documents |-> extract_quality_documents(text),
     governing_terms |-> extract_governing_terms(text)]

\* what safe_extract placed for those fields in the locals of one call
ConstantFields(locals) ==
    [company_name |-> locals.metadata.company_name,
     company_address |-> locals.metadata.company_address,
     company_phone |-> locals.metadata.company_phone,
     supplier_address |-> locals.supplier_details.address,
     ship_to_name |-> locals.ship_to_details.name,
     ship_to_address |-> locals.ship_to_details.address,
     line_items |-> locals.line_items,
     special_instructions |-> locals.special_instructions,
     invoicing_instructions |-> locals.invoicing_instructions,
     msmed_declaration |-> locals.tax_and_compliance.msmed_declaration,
     quality_documents |-> locals.tax_and_compliance.quality_documents,
     governing_terms |-> locals.terms_and_conditions.governing_terms]

\* C8: for every field fed by a constant rule (line items, special
\* instructions, the company, ship-to and supplier-address constants), the
\* rule's output and the value safe_extract places for it are the same for
\* any two texts, and the default handed to safe_extract (the blank line
\* item, {}, "") is never the value placed.
C8_ConstantFieldsIgnoreText ==
    Len(po.frames) = 2 =>
        /\ ConstantOutputs(po.texts[1]) = ConstantOutputs(po.texts[2])
        /\ ConstantFields(po.frames[1].locals) = ConstantFields(po.frames[2].locals)
        /\ ConstantFields(po.frames[1].locals) = ConstantOutputs(po.texts[1])
        /\ po.frames[1].returned.line_items = po.frames[2].returned.line_items
        /\ \A field \in DOMAIN ConstantFields(po.frames[1].locals) :
              ConstantFields(po.frames[1].locals)[field]
                 \notin {BlankLineItems, EmptyDict, Str(<<>>), None}

\* C8 witness: two calls on different texts, one empty and one with a line
\* break, placed the same two line items.
C8_Witness ==
    /\ Len(po.frames) = 2
    /\ po.texts[1] = <<>>
    /\ po.texts[2] = Chunks[1] \o Chunks[3]
    /\ Len(po.frames[1].locals.line_items.items) = 2
    /\ po.frames[1].locals.line_items = po.frames[2].locals.line_items
    /\ po.frames[1].locals.special_instructions
          = po.frames[2].locals.special_instructions

(***************************************************************************)
(* extract_structured_data.                                                *)
(***************************************************************************)
\* the elements of a list
Elements(list) == {list[i] : i \in DOMAIN list}

\* sub occurs in s
Occurs(s, sub) ==
    \E i \in 1..Len(s) - Len(sub) + 1 : SubSeq(s, i, i + Len(sub) - 1) = sub

\* C7: for every text the result of extract_structured_data has exactly the
\* four categories emails, phone_numbers, urls and dates; each category
\* holds exactly the distinct matches of its pattern, no value twice; a
\* category with no match is there as an empty list.
C7_DistinctMatchesPerCategory ==
    entities.result # NotCalled =>
        /\ DOMAIN entities.result = {"emails", "phone_numbers", "urls", "dates"}
        /\ \A category \in DOMAIN entities.result :
              LET found == entities.result[category]
                  matches == re_findall(patterns[category], entities.text, TRUE)
              IN  /\ \A i, j \in DOMAIN found : found[i] = found[j] => i = j
                  /\ Elements(found) = Elements(matches)
                  /\ \A i \in DOMAIN found : Occurs(entities.text, found[i])
                  /\ re_search(patterns[category], entities.text, TRUE) = NoMatch
                        => found = <<>>

\* C7 witness: a text with the same address twice returned the address
\* once and empty lists for the other three categories.
C7_Witness ==
    /\ entities.text = EntityChunks[1] \o EntityChunks[1]
    /\ entities.result # NotCalled
    /\ Len(re_findall(patterns.emails, entities.text, TRUE)) = 2
    /\ entities.result.emails = <<<<"a", "@", "b", ".", "c", "o">>>>
    /\ entities.result.dates = <<>>
    /\ entities.result.urls = <<>>
    /\ entities.result.phone_numbers = <<>>

(***************************************************************************)
(* The table extractors.                                                   *)
(***************************************************************************)
\* C9: two invocations of the table extractors share the one file
\* temp.pdf, and the write of the bytes and the library's read are
\* separate steps: what an invocation returns is the tables of whatever
\* temp.pdf holds at its read, which is sure to be its own upload only
\* while the other invocation has not yet opened the file.
C9_ReadSeesSharedFile ==
    [][\A i \in DOMAIN tables.calls :
          (tables.calls[i].pc = "closed" /\ tables'.calls[i].pc = "returned") =>
              /\ "temp.pdf" \in DOMAIN tables.files
              /\ tables'.calls[i].returned.tables_of = tables.files["temp.pdf"]
              /\ tables'.calls[i].returned.tables_by = tables.calls[i].extractor
              /\ tables.calls[3 - i].pc = "start"
                    => tables'.calls[i].returned.tables_of
                          = tables.calls[i].pdf_bytes]_vars

\* C9 witness: the camelot invocation, handed bytes other than those of the
\* tabula invocation, has returned the tables of the other's bytes.
C9_Witness ==
    /\ tables.calls # <<>>
    /\ tables.calls[1].extractor = "extract_with_camelot"
    /\ tables.calls[2].extractor = "extract_with_tabula"
    /\ tables.calls[1].pdf_bytes = <<"a">>
    /\ tables.calls[2].pdf_bytes = <<"b", "b">>
    /\ tables.calls[1].pc = "returned"
    /\ tables.calls[1].returned.tables_of = tables.calls[2].pdf_bytes

(***************************************************************************)
(* The rules of parse_purchase_order_data in any order.                    *)
(***************************************************************************)
\* what the k-th call places when the calls run in the order of the code
\* and leave these locals
InCodeOrder(locals, k) ==
    IF k \in rules.raising THEN FieldCalls[k].default_value
    ELSE Leaf(locals, FieldCalls[k])

\* C10: the field rules are independent: run in any order or interleaving,
\* some of them raising, they leave the record the order of the code
\* leaves, and a call never changes the value of another field.
C10_RulesIndependentOfOrder ==
    /\ [](rules.returned # NotCalled =>
            /\ LET locals == ParseLocals(rules.text, rules.filename)
               IN  \A k \in DOMAIN rules.placed :
                       rules.placed[k] = InCodeOrder(locals, k)
            /\ rules.returned
                  = ReturnedDict(AssembledLocals(rules.placed, rules.text,
                                                 rules.filename))
            /\ rules.raising = {}
                  => rules.returned
                        = parse_purchase_order_data(rules.text, rules.filename))
    /\ [][\A k \in DOMAIN rules.placed :
             rules.placed[k] # NotCalled => rules'.placed[k] = rules.placed[k]]_vars

\* C10 witness: with the rules of po_number and the amount raising, and a
\* call run ahead of a pending one, the record returned holds the defaults
\* for these two and the currency found in the text.
C10_Witness ==
    /\ rules.returned # NotCalled
    /\ rules.ahead
    /\ rules.raising = {4, 29}
    /\ rules.text = Join(Chunks, <<1, 8>>)
    /\ rules.returned.order_details.po_number = Str(<<>>)
    /\ rules.returned.totals.total_extended_net_price = Str(<<>>)
    /\ rules.returned.totals.currency = Str(<<"I", "N", "R">>)
    /\ rules.returned.administrative_details.currency = Str(<<"I", "N", "R">>)

(***************************************************************************)
(* extract_supplier_name.                                                  *)
(***************************************************************************)
\* label[.:\s]*([^\n]+)
LabelPattern(label) ==
    Literal(label) \o
    <<AtLeast(0, <<OneOf(Whitespace \cup {".", ":"})>>), GroupOpen,
      AtLeast(1, <<NoneOf({"\n"})>>), GroupClose>>

\* the text a match captured, trimmed
Captured(text, match) == Str(strip(SubSeq(text, match[3], match[4] - 1)))

\* C11: extract_supplier_name tries its three patterns in a fixed order and
\* stops at the first that matches: a match of the "Supplier Name" pattern
\* gives its trimmed capture wherever in the text the labels stand; else a
\* match of the "Vendor Name" pattern gives its trimmed capture; else a
\* match of the company name, in any case of letters, gives the constant
\* "VALVETECQ ENGINEERS"; None is returned only when none of the three
\* matches.
C11_FirstMatchingPatternWins ==
    supplier.result # NotCalled =>
        LET text == supplier.text
            by_supplier == re_search(LabelPattern(<<"S", "u", "p", "p", "l", "i", "e", "r", " ", "N", "a", "m", "e">>), text, TRUE)
            by_vendor == re_search(LabelPattern(<<"V", "e", "n", "d", "o", "r", " ", "N", "a", "m", "e">>), text, TRUE)
            by_company == re_search(Literal(<<"V", "A", "L", "V", "E", "T", "E", "C", "Q", " ", "E", "N", "G", "I", "N", "E", "E", "R", "S">>), text, TRUE)
        IN  /\ by_supplier # NoMatch
                  => supplier.result = Captured(text, by_supplier)
            /\ by_supplier = NoMatch /\ by_vendor # NoMatch
                  => supplier.result = Captured(text, by_vendor)
            /\ by_supplier = NoMatch /\ by_vendor = NoMatch /\ by_company # NoMatch
                  => supplier.result = Str(<<"V", "A", "L", "V", "E", "T", "E", "C", "Q", " ", "E", "N", "G", "I", "N", "E", "E", "R", "S">>)
            /\ supplier.result = None
                  <=> by_supplier = NoMatch /\ by_vendor = NoMatch
                         /\ by_company = NoMatch

\* C11 witness: in a text where the "Vendor Name" label and its value come
\* before the "Supplier Name" label, the value after "Supplier Name" was
\* returned, trimmed.
C11_Witness ==
    /\ supplier.text = SupplierChunks[2] \o SupplierChunks[1]
    /\ re_search(LabelPattern(<<"V", "e", "n", "d", "o", "r", " ", "N", "a", "m", "e">>), supplier.text, TRUE) # NoMatch
    /\ supplier.result = Str(<<"A", "C", "M", "E">>)

(***************************************************************************)
(* The text of an ExtractedDocument against its page entries.              *)
(***************************************************************************)
\* the newline-joined concatenation of the entries' texts, in sequence
\* order, with the ends trimmed
RECURSIVE JoinedPageTexts(_, _)
JoinedPageTexts(entries, i) ==
    IF i > Len(entries) THEN <<>>
    ELSE entries[i].text.s \o <<"\n", "\n">> \o JoinedPageTexts(entries, i + 1)

TextOfEntries(entries) == Str(strip(JoinedPageTexts(entries, 1)))

NumberedInSequence(entries) ==
    \A i \in 1..Len(entries) : entries[i].page_number = i

\* a document handed back by extract_pdf_data
DocumentReturned ==
    /\ http.pc = "responded"
    /\ http.request.endpoint = "/convert/pdf2json"
    /\ http.response.status_code = 200

\* C12: in every document extract_pdf_data returns, one with an error field
\* after a failure part-way through the pages included, text is the joined
\* text of exactly the entries present in pages, in page order, and the
\* entries are numbered 1, 2, ..., n in sequence order.
C12_TextIsJoinOfPageEntries ==
    DocumentReturned =>
        LET data == http.response.content.data
        IN  /\ data.text = TextOfEntries(data.pages)
            /\ NumberedInSequence(data.pages)

\* C12, what the code does: the entries are numbered 1..n in every document;
\* text is the joined text of the entries in a document without an error
\* field, and is the empty string in every document with one, whatever its
\* entries hold (text is assigned only after the last page, main.py 86).
C12_TextAssignedAfterLastPage ==
    DocumentReturned =>
        LET data == http.response.content.data
        IN  /\ NumberedInSequence(data.pages)
            /\ "error" \notin DOMAIN data => data.text = TextOfEntries(data.pages)
            /\ "error" \in DOMAIN data => data.text = Str(<<>>)

\* C12 witness: the first page gave its text and the second failed: the
\* document has the first page's entry with that text, and an empty text.
C12_Witness ==
    /\ DocumentReturned
    /\ Len(http.request.file.pages) = 2
    /\ IsRaise(http.request.file.pages[2].extract_text)
    /\ "error" \in DOMAIN http.response.content.data
    /\ Len(http.response.content.data.pages) = 1
    /\ http.response.content.data.pages[1].page_number = 1
    /\ http.response.content.data.pages[1].text
          = Str(<<"P", "U", "R", "C", "H", "A", "S", "E", " ", "O", "R", "D", "E", "R", " ", "N", "O", ":", " ", "P", "O", "1", "2", "3", "4", "5", "\n", "R", "e", "v", "i", "s", "i", "o", "n", " ", "N", "o", ":", " ", "7">>)
    /\ http.response.content.data.text = Str(<<>>)
====
